---------------------------- MODULE Spec2Model ----------------------------
(***************************************************************************)
(* A model of confluence_markdown's ConfluenceClient (client.py): the      *)
(* macro extractor, the macro codec and the round-trip editor session.     *)
(*                                                                         *)
(* A Python str is a sequence of one-character strings, a bytes object a   *)
(* sequence of integers 0..255.  A parsed document (the BeautifulSoup      *)
(* tree) is a sequence of nodes in document order, each naming its parent  *)
(* (0 is the document root).  A dict is the sequence of its <<key, value>> *)
(* pairs in insertion order.                                               *)
(***************************************************************************)
EXTENDS Integers, Sequences, FiniteSets, TLC

VARIABLES
    \* ---- _html_to_markdown_with_macros and the restoration loop
    xpc,          \* "parsed" -> "extracted" -> "restored"
    doc0,         \* soup as parsed (client.py:538)
    soup,         \* soup after the replace_with calls
    macro_tags,   \* the list macro_tags (node ids)
    macro_map,    \* the dict macro_map
    markdown,     \* the rendered Markdown
    restored,     \* the text after the restoration loop
    \* ---- the macro codec on its own
    cpc,          \* "map" -> "input" -> "decoded" -> "extracted" -> "removed"
    source_map,   \* the argument of _encode_macro_map, when there was one
    encoded_text, \* the argument of _decode_macro_map
    decoded,      \* what _decode_macro_map did with it
    document,     \* the argument of _extract_macro_map_from_markdown
    extracted,    \* what _extract_macro_map_from_markdown did with it
    stripped,     \* what _remove_macro_block returned for the document
    \* ---- one call of edit_page_with_editor or add_content_to_page
    op,               \* "edit", "add", "download" or "read"
    page_url,         \* the argument page_url
    gets,             \* the number of GET requests sent
    fetch_status,     \* status code of the response to the GET request, 0: none
    announced,        \* "Page updated successfully!" has been printed
    output,           \* what download_as_markdown or read_page_content returned
    state,            \* the position of the call
    encoding,         \* the locale's encoding, which text files are opened in
    server_version,   \* the version number of the page on the server
    page_data,        \* page_data as fetched
    temp_file,        \* the temporary file
    original_mtime,   \* original_mtime
    editor,           \* how the editor process ended
    edited_content,   \* edited_content as read from the file
    edited_map,       \* macro_map as extracted from the edited text
    cleaned_content,  \* cleaned_content after the restoration loop
    puts,             \* the update requests sent, in order
    response_status,  \* status code of the last update response, 0: none
    result,           \* what the call returned: "None", "response", "": nothing
    error,            \* the exception the call raised, "": none
    \* ---- _escape_markdown_heading, and the clean-up of the edited text, each
    \* ---- on its own
    hpc,              \* "given" -> "escaped", "edited" -> "cleaned"
    heading,          \* the argument of _escape_markdown_heading
    escaped,          \* what it returned
    buffer_text,      \* edited_content when its lines are split
    content_lines,    \* content_lines after the loop over the lines
    cleaned_text,     \* cleaned_content before the restoration loop
    \* ---- _extract_page_id_from_url on its own
    url_text,         \* the argument page_url
    url_id,           \* the page id it returned
    \* ---- the CQL builders
    query,            \* the argument of a builder
    text_cql,         \* what _build_text_search_cql returned
    ensured,          \* what _ensure_page_cql returned
    ensured_twice,    \* what _ensure_page_cql returned for that
    \* ---- _build_rich_renderables
    md_lines,         \* lines
    index,            \* index
    text_lines,       \* text_lines
    renderables,      \* renderables
    \* ---- ConfluenceClient.__init__
    credentials,      \* the arguments base_url, username, password, token
    client,           \* the client constructed, or the error raised
    \* ---- list_recent_pages and list_recently_viewed_pages
    listing,          \* "recent" or "viewed"
    requests,         \* the searches sent and how each was answered
    data,             \* the variant whose answer data holds, 0: None
    raised,           \* the exception the listing raised, "": none
    \* ---- main() of the command line
    args,             \* the arguments after configuration and prompts
    call_outcome,     \* how the call into the client ended
    printed,          \* the kinds of message printed, in order
    exit_status       \* the exit status, -1 while main runs

xvars == <<xpc, doc0, soup, macro_tags, macro_map, markdown, restored>>

cvars == <<cpc, source_map, encoded_text, decoded, document, extracted,
           stripped>>

svars == <<op, page_url, gets, fetch_status, announced, output, state, encoding, server_version, page_data, temp_file,
           original_mtime, editor, edited_content, edited_map, cleaned_content,
           puts, response_status, result, error>>

headvars == <<heading, escaped, buffer_text, content_lines, cleaned_text>>

uvars == <<url_text, url_id>>

qvars == <<query, text_cql, ensured, ensured_twice>>

rvars == <<md_lines, index, text_lines, renderables>>

ivars == <<credentials, client>>

lvars == <<listing, requests, data, raised>>

mvars == <<args, call_outcome, printed, exit_status>>

hvars == <<hpc, headvars, uvars, qvars, rvars, ivars, lvars, mvars>>

vars == <<xvars, cvars, svars, hvars>>

---------------------------------------------------------------------------
(* Bounds of the model *)

\* Largest number of nodes (tags and strings) of a parsed document.
MaxNodes == 3

---------------------------------------------------------------------------
(* Python str operations *)

RECURSIVE ConcatRange(_, _, _)
\* "".join(parts[lo-1:hi]), by halves
ConcatRange(parts, lo, hi) ==
    IF lo > hi THEN <<>>
    ELSE IF lo = hi THEN parts[lo]
    ELSE LET mid == (lo + hi) \div 2
         IN  ConcatRange(parts, lo, mid) \o ConcatRange(parts, mid + 1, hi)

\* "".join(parts)
Concat(parts) == ConcatRange(parts, 1, Len(parts))

\* s.startswith(prefix)
StartsWith(s, prefix) ==
    /\ Len(prefix) <= Len(s)
    /\ SubSeq(s, 1, Len(prefix)) = prefix

\* s[i:].startswith(sub), i counted from 1
MatchAt(s, i, sub) ==
    /\ i + Len(sub) - 1 <= Len(s)
    /\ SubSeq(s, i, i + Len(sub) - 1) = sub

\* sub in s
Contains(s, sub) == \E i \in 1..(Len(s) + 1) : MatchAt(s, i, sub)

Min(S) == CHOOSE x \in S : \A y \in S : x <= y

Max(S) == CHOOSE x \in S : \A y \in S : x >= y

\* s.find(sub, start): the first index >= start where sub occurs, 0 when none
Find(s, sub, start) ==
    LET hits == {i \in start..(Len(s) + 1 - Len(sub)) : MatchAt(s, i, sub)}
    IN  IF hits = {} THEN 0 ELSE Min(hits)

RECURSIVE ReplaceFrom(_, _, _, _)
\* the text from index i on, with each occurrence found from there replaced
ReplaceFrom(s, old, new, i) ==
    LET j == Find(s, old, i)
    IN  IF j = 0 THEN SubSeq(s, i, Len(s))
        ELSE SubSeq(s, i, j - 1) \o new \o ReplaceFrom(s, old, new, j + Len(old))

\* new before every character of s and at its end
Interleave(s, new) ==
    LET block == Len(new) + 1
    IN  [p \in 1..(Len(s) * block + Len(new)) |->
            IF (p - 1) % block < Len(new)
            THEN new[((p - 1) % block) + 1]
            ELSE s[((p - 1) \div block) + 1]]

\* s.replace(old, new): every non-overlapping occurrence, leftmost first; an
\* empty old matches before every character and at the end
Replace(s, old, new) ==
    IF old = <<>> THEN Interleave(s, new) ELSE ReplaceFrom(s, old, new, 1)

Whitespace == {" ", "\t", "\n", "\r", "\f"}

\* s.strip()
Strip(s) ==
    LET solid == {i \in 1..Len(s) : s[i] \notin Whitespace}
    IN  IF solid = {} THEN <<>> ELSE SubSeq(s, Min(solid), Max(solid))

\* a set of node ids or indexes in ascending (document) order
SortedSeq(S) ==
    [k \in 1..Cardinality(S) |->
        CHOOSE x \in S : Cardinality({y \in S : y < x}) = k - 1]

\* sep.join(parts)
Join(sep, parts) ==
    Concat([p \in 1..(2 * Len(parts) - 1) |->
               IF p % 2 = 1 THEN parts[(p + 1) \div 2] ELSE sep])

\* s.split("\n")
SplitLines(s) ==
    LET breaks == SortedSeq({i \in 1..Len(s) : s[i] = "\n"})
    IN  [k \in 1..(Len(breaks) + 1) |->
            SubSeq(s, IF k = 1 THEN 1 ELSE breaks[k - 1] + 1,
                      IF k > Len(breaks) THEN Len(s) ELSE breaks[k] - 1)]

Digits == <<"0","1","2","3","4","5","6","7","8","9">>

RECURSIVE IntToStr(_)
\* str(n) for n >= 0, as an f-string formats it
IntToStr(n) ==
    IF n < 10 THEN <<Digits[n + 1]>>
    ELSE IntToStr(n \div 10) \o <<Digits[(n % 10) + 1]>>

---------------------------------------------------------------------------
(* Python dict operations (insertion-ordered) *)

DictKeys(d) == {d[i][1] : i \in 1..Len(d)}

DictHas(d, k) == \E i \in 1..Len(d) : d[i][1] = k

DictGet(d, k) == d[CHOOSE i \in 1..Len(d) : d[i][1] = k][2]

\* d[k] = v: a new key is appended, an existing key keeps its position
DictSet(d, k, v) ==
    IF DictHas(d, k)
    THEN [i \in 1..Len(d) |-> IF d[i][1] = k THEN <<k, v>> ELSE d[i]]
    ELSE Append(d, <<k, v>>)

---------------------------------------------------------------------------
(* The parsed document *)

MacroPrefix == <<"a","c",":">>

TagNames ==
    { <<"p">>,
      <<"a","c",":","i","m","a","g","e">>,
      <<"r","i",":","x">> }

PlaceholderOpen ==
    <<"[","[","C","O","N","F","L","U","E","N","C","E","-","M","A","C","R","O","-">>

PlaceholderClose == <<"]","]">>

\* f"[[CONFLUENCE-MACRO-{macro_index}]]"
Placeholder(macro_index) ==
    PlaceholderOpen \o IntToStr(macro_index) \o PlaceholderClose

\* The strings a document carries: plain words and text of the placeholder form.
Texts == { <<"H","i">>, Placeholder(1), Placeholder(2) }

TagNode(name, parent) ==
    [kind |-> "tag", name |-> name, text |-> <<>>, parent |-> parent,
     attached |-> TRUE]

TextNode(text, parent) ==
    [kind |-> "text", name |-> <<>>, text |-> text, parent |-> parent,
     attached |-> TRUE]

NodesOf(n) ==
    {TagNode(nm, p) : nm \in TagNames, p \in 0..(n - 1)}
        \cup {TextNode(t, p) : t \in Texts, p \in 0..(n - 1)}

RECURSIVE AncestorsOf(_, _)
\* the parents of node i, innermost first (Tag.parents), as a set of node ids
AncestorsOf(d, i) ==
    IF d[i].parent = 0 THEN {}
    ELSE {d[i].parent} \cup AncestorsOf(d, d[i].parent)

\* A sequence of nodes is a tree in document order when every parent is an
\* earlier tag and is the previous node or one of its ancestors; the parser
\* merges adjacent strings, so no two strings are adjacent siblings.
WellFormed(d) ==
    \A i \in 1..Len(d) :
        /\ d[i].parent < i
        /\ d[i].parent # 0 => d[d[i].parent].kind = "tag"
        /\ i > 1 => d[i].parent \in {0, i - 1} \cup AncestorsOf(d, i - 1)
        /\ \A j \in 1..(i - 1) :
              ~ /\ d[i].kind = "text"
                /\ d[j].kind = "text"
                /\ d[j].parent = d[i].parent
                /\ \A k \in (j + 1)..(i - 1) : j \in AncestorsOf(d, k)

Docs ==
    UNION { {d \in [1..n -> NodesOf(n)] : WellFormed(d)} : n \in 0..MaxNodes }

\* the attached children of node i (0: of the document), in document order
ChildrenOf(d, i) ==
    SortedSeq({j \in 1..Len(d) : d[j].parent = i /\ d[j].attached})

RECURSIVE Serialize(_, _)
\* str(tag): the element with all its descendants; str of a string is its text
Serialize(d, i) ==
    IF d[i].kind = "text" THEN d[i].text
    ELSE LET kids == ChildrenOf(d, i)
         IN  <<"<">> \o d[i].name \o <<">">>
                \o Concat([k \in 1..Len(kids) |-> Serialize(d, kids[k])])
                \o <<"<", "/">> \o d[i].name \o <<">">>

\* tag.name.startswith("ac:")
IsMacroTag(d, i) == d[i].kind = "tag" /\ StartsWith(d[i].name, MacroPrefix)

MutNoParentCheck(d, i) == FALSE

\* tag.find_parent(lambda parent: ... parent.name.startswith("ac:"))
HasMacroParent(d, i) == \E a \in AncestorsOf(d, i) : IsMacroTag(d, a)

RECURSIVE CollectMacroTags(_, _)
\* the loop over soup.find_all(True) that fills macro_tags, from node i on
CollectMacroTags(d, i) ==
    IF i > Len(d) THEN <<>>
    ELSE IF IsMacroTag(d, i) /\ ~HasMacroParent(d, i)
         THEN <<i>> \o CollectMacroTags(d, i + 1)
         ELSE CollectMacroTags(d, i + 1)

RECURSIVE DescendantsOf(_, _)
DescendantsOf(d, i) ==
    LET kids == {j \in 1..Len(d) : d[j].parent = i}
    IN  kids \cup UNION {DescendantsOf(d, j) : j \in kids}

\* tag.replace_with(text): a string takes the tag's place in the tree and the
\* tag's subtree leaves the tree
ReplaceWith(d, i, text) ==
    LET gone == DescendantsOf(d, i)
    IN  [j \in 1..Len(d) |->
            IF j = i THEN [TextNode(text, d[i].parent) EXCEPT
                              !.attached = d[i].attached]
            ELSE IF j \in gone THEN [d[j] EXCEPT !.attached = FALSE]
            ELSE d[j]]

MutNoIncrement(macro_index) == macro_index

\* macro_index += 1
NextMacroIndex(macro_index) == macro_index + 1

RECURSIVE ReplaceLoop(_, _, _, _, _)
\* the loop `for tag in macro_tags`, from position k of tags on; yields the
\* tree and the dict it leaves
ReplaceLoop(d, tags, k, macro_index, map) ==
    IF k > Len(tags) THEN [soup |-> d, macro_map |-> map]
    ELSE LET placeholder == Placeholder(macro_index)
         IN  ReplaceLoop(ReplaceWith(d, tags[k], placeholder), tags, k + 1,
                         NextMacroIndex(macro_index),
                         DictSet(map, placeholder, Serialize(d, tags[k])))

RECURSIVE RenderNode(_, _)
\* markdownify of one node: a string as it is, a paragraph as its content and a
\* blank line, any other element as its content
RenderNode(d, i) ==
    IF d[i].kind = "text" THEN d[i].text
    ELSE LET kids == ChildrenOf(d, i)
             inner == Concat([k \in 1..Len(kids) |-> RenderNode(d, kids[k])])
         IN  IF d[i].name = <<"p">> THEN inner \o <<"\n", "\n">> ELSE inner

\* markdownify(str(soup), ...).strip()
RenderMarkdown(d) ==
    LET kids == ChildrenOf(d, 0)
    IN  Strip(Concat([k \in 1..Len(kids) |-> RenderNode(d, kids[k])]))

RECURSIVE RestoreLoop(_, _, _)
\* for placeholder, macro_html in macro_map.items():
\*     cleaned_content = cleaned_content.replace(placeholder, macro_html)
RestoreLoop(text, map, k) ==
    IF k > Len(map) THEN text
    ELSE RestoreLoop(Replace(text, map[k][1], map[k][2]), map, k + 1)

---------------------------------------------------------------------------
(* Characters and bytes *)

\* The printable ASCII characters, code 32 first.
AsciiPrintable ==
    <<" ","!","\"","#","$","%","&","'","(",")","*","+",",","-",".","/",
      "0","1","2","3","4","5","6","7","8","9",":",";","<","=",">","?",
      "@","A","B","C","D","E","F","G","H","I","J","K","L","M","N","O",
      "P","Q","R","S","T","U","V","W","X","Y","Z","[","\\","]","^","_",
      "U+0060","a","b","c","d","e","f","g","h","i","j","k","l","m","n","o",
      "p","q","r","s","t","u","v","w","x","y","z","{","|","}","~">>

\* Characters that cannot be written as a one-character string are written as
\* tokens: "U+0060" is the grave accent, "U+00E9" the one character of that
\* code point, "CTL" a control character other than tab, line feed, form feed
\* and carriage return, "DEL" character 127, "U+1F600" the one character of
\* that code point (outside the basic plane), "U+????" any other character
\* outside ASCII.
NonAsciiChars == {"U+00E9", "U+20AC", "U+1F600", "U+????"}

IsPrintable(c) == \E k \in 1..Len(AsciiPrintable) : AsciiPrintable[k] = c

\* chr(b) for the result of a UTF-8 decode of one code point
CodePointChar(cp) ==
    IF cp >= 32 /\ cp <= 126 THEN AsciiPrintable[cp - 31]
    ELSE IF cp = 9 THEN "\t"
    ELSE IF cp = 10 THEN "\n"
    ELSE IF cp = 12 THEN "\f"
    ELSE IF cp = 13 THEN "\r"
    ELSE IF cp < 32 THEN "CTL"
    ELSE IF cp = 127 THEN "DEL"
    ELSE IF cp = 233 THEN "U+00E9"
    ELSE IF cp = 8364 THEN "U+20AC"
    ELSE IF cp = 128512 THEN "U+1F600"
    ELSE "U+????"

\* str.encode("ascii") succeeds only on characters below 128
IsAscii(c) == c \notin NonAsciiChars

---------------------------------------------------------------------------
(* base64.b64decode(data) with validate=False: binascii.a2b_base64 *)

B64Alphabet ==
    <<"A","B","C","D","E","F","G","H","I","J","K","L","M","N","O","P",
      "Q","R","S","T","U","V","W","X","Y","Z","a","b","c","d","e","f",
      "g","h","i","j","k","l","m","n","o","p","q","r","s","t","u","v",
      "w","x","y","z","0","1","2","3","4","5","6","7","8","9","+","/">>

IsB64Char(c) == \E k \in 1..Len(B64Alphabet) : B64Alphabet[k] = c

\* table_a2b_base64[c] for a character of the alphabet
B64Value(c) == (CHOOSE k \in 1..Len(B64Alphabet) : B64Alphabet[k] = c) - 1

B64Pad == "="

\* The decoding loop of a2b_base64 reads the characters in order: a character
\* outside the alphabet is skipped; a pad counts only when two or three
\* characters of the current quad have been read, and the pad that completes
\* the quad ends the decoding (what follows is not read); every character of
\* the alphabet resets the pad count.

\* the number of alphabet characters before index i
DataBefore(s, i) == Cardinality({j \in 1..(i - 1) : IsB64Char(s[j])})

\* whether the loop would stop at the pad at index i
PadCompletesQuad(s, i) ==
    /\ s[i] = B64Pad
    /\ LET quad_pos == DataBefore(s, i) % 4
           since == {j \in 1..(i - 1) : IsB64Char(s[j])}
           last == IF since = {} THEN 0 ELSE Max(since)
           pads == Cardinality({j \in (last + 1)..(i - 1) : s[j] = B64Pad})
       IN  quad_pos >= 2 /\ quad_pos + pads + 1 >= 4

\* what the loop has read when it ends: the alphabet characters before the
\* first pad that completes a quad, or all of them
B64Read(s, stops) ==
    [stopped |-> stops # {},
     data |-> SelectSeq(IF stops = {} THEN s ELSE SubSeq(s, 1, Min(stops) - 1),
                        IsB64Char)]

\* the bytes of the characters read, three for every four; ok = FALSE for the
\* error raised when the data ends inside a quad
B64Bytes(read) ==
    LET n == Len(read.data)
        count == 3 * (n \div 4) + (IF n % 4 = 0 THEN 0 ELSE (n % 4) - 1)
    IN  [ok |-> read.stopped \/ n % 4 = 0,
         bytes |->
            [b \in 1..count |->
                LET q == 4 * ((b - 1) \div 3)
                IN  CASE (b - 1) % 3 = 0 ->
                           B64Value(read.data[q + 1]) * 4
                               + (B64Value(read.data[q + 2]) \div 16)
                      [] (b - 1) % 3 = 1 ->
                           (B64Value(read.data[q + 2]) % 16) * 16
                               + (B64Value(read.data[q + 3]) \div 4)
                      [] OTHER ->
                           (B64Value(read.data[q + 3]) % 4) * 64
                               + B64Value(read.data[q + 4])]]

\* binascii.a2b_base64(s)
B64Decode(s) ==
    B64Bytes(B64Read(s, {i \in 1..Len(s) : PadCompletesQuad(s, i)}))

---------------------------------------------------------------------------
(* bytes.decode("utf-8") *)

IsCont(b) == b >= 128 /\ b <= 191

\* the code point of the sequence that starts at b[i], -1 when it is invalid
Utf8CodePoint(b, i) ==
    IF b[i] >= 194 /\ b[i] <= 223
    THEN IF i + 1 <= Len(b) /\ IsCont(b[i + 1])
         THEN (b[i] - 192) * 64 + (b[i + 1] - 128)
         ELSE -1
    ELSE IF b[i] >= 224 /\ b[i] <= 239
    THEN IF /\ i + 2 <= Len(b)
            /\ IsCont(b[i + 1]) /\ IsCont(b[i + 2])
            /\ (b[i] = 224 => b[i + 1] >= 160)      \* no overlong form
            /\ (b[i] = 237 => b[i + 1] <= 159)      \* no surrogate
         THEN (b[i] - 224) * 4096 + (b[i + 1] - 128) * 64 + (b[i + 2] - 128)
         ELSE -1
    ELSE IF b[i] >= 240 /\ b[i] <= 244
    THEN IF /\ i + 3 <= Len(b)
            /\ IsCont(b[i + 1]) /\ IsCont(b[i + 2]) /\ IsCont(b[i + 3])
            /\ (b[i] = 240 => b[i + 1] >= 144)
            /\ (b[i] = 244 => b[i + 1] <= 143)
         THEN (b[i] - 240) * 262144 + (b[i + 1] - 128) * 4096
                 + (b[i + 2] - 128) * 64 + (b[i + 3] - 128)
         ELSE -1
    ELSE -1

Utf8Width(lead) ==
    IF lead <= 223 THEN 2 ELSE IF lead <= 239 THEN 3 ELSE 4

RECURSIVE Utf8Scan(_, _)
\* the text of b[i..]: the ASCII run up to the next byte above 127, then the
\* character that byte starts, then the rest
Utf8Scan(b, i) ==
    LET high == {j \in i..Len(b) : b[j] >= 128}
        stop == IF high = {} THEN Len(b) + 1 ELSE Min(high)
        run == [k \in 1..(stop - i) |-> CodePointChar(b[i + k - 1])]
    IN  IF high = {} THEN [ok |-> TRUE, chars |-> run]
        ELSE IF Utf8CodePoint(b, stop) = -1 THEN [ok |-> FALSE, chars |-> <<>>]
        ELSE LET rest == Utf8Scan(b, stop + Utf8Width(b[stop]))
             IN  [ok |-> rest.ok,
                  chars |-> run \o <<CodePointChar(Utf8CodePoint(b, stop))>>
                                \o rest.chars]

Utf8Decode(b) == Utf8Scan(b, 1)

---------------------------------------------------------------------------
(* json.loads(text): the values, and the scanner of the json module *)

JDict(pairs) == [t |-> "dict", v |-> pairs]
JList(items) == [t |-> "list", v |-> items]
JStr(chars) == [t |-> "str", v |-> chars]
JNum(lexeme) == [t |-> "number", v |-> lexeme]
JLit(name) == [t |-> "literal", v |-> name]

\* the dict {}
EmptyMap == JDict(<<>>)

JsonFail == [ok |-> FALSE, val |-> JLit(<<>>), end |-> 0]

JsonOk(val, end) == [ok |-> TRUE, val |-> val, end |-> end]

JsonWhitespace == {" ", "\t", "\n", "\r"}

\* WHITESPACE.match(s, i).end()
SkipWs(s, i) ==
    LET solid == {j \in i..Len(s) : s[j] \notin JsonWhitespace}
    IN  IF solid = {} THEN Max({i, Len(s) + 1}) ELSE Min(solid)

IsDigit(c) == c \in {"0","1","2","3","4","5","6","7","8","9"}

HexDigits ==
    <<"0","1","2","3","4","5","6","7","8","9","a","b","c","d","e","f">>

HexUpper == <<"A","B","C","D","E","F">>

IsHex(c) ==
    \/ \E k \in 1..16 : HexDigits[k] = c
    \/ \E k \in 1..6 : HexUpper[k] = c

HexValue(c) ==
    IF \E k \in 1..16 : HexDigits[k] = c
    THEN (CHOOSE k \in 1..16 : HexDigits[k] = c) - 1
    ELSE (CHOOSE k \in 1..6 : HexUpper[k] = c) + 9

\* whether \uXXXX can be read at s[i] = "\\"
IsUEscape(s, i) ==
    /\ i + 5 <= Len(s)
    /\ s[i] = "\\" /\ s[i + 1] = "u"
    /\ \A k \in 2..5 : IsHex(s[i + k])

UEscapeValue(s, i) ==
    HexValue(s[i + 2]) * 4096 + HexValue(s[i + 3]) * 256
        + HexValue(s[i + 4]) * 16 + HexValue(s[i + 5])

\* the index after the run of digits that starts at i
DigitsEnd(s, i) ==
    LET other == {j \in i..Len(s) : ~IsDigit(s[j])}
    IN  IF other = {} THEN Max({i, Len(s) + 1}) ELSE Min(other)

\* the exponent of NUMBER_RE, fracEnd the index after integer and fraction
NumberExponent(s, fracEnd) ==
    LET expStart == IF /\ fracEnd + 1 <= Len(s)
                       /\ s[fracEnd] \in {"e", "E"}
                       /\ s[fracEnd + 1] \in {"+", "-"}
                    THEN fracEnd + 2
                    ELSE fracEnd + 1
    IN  IF /\ fracEnd <= Len(s)
           /\ s[fracEnd] \in {"e", "E"}
           /\ expStart <= Len(s)
           /\ IsDigit(s[expStart])
        THEN DigitsEnd(s, expStart)
        ELSE fracEnd

\* the fraction of NUMBER_RE, intEnd the index after the integer
NumberFraction(s, intEnd) ==
    NumberExponent(s, IF /\ intEnd + 1 <= Len(s)
                         /\ s[intEnd] = "."
                         /\ IsDigit(s[intEnd + 1])
                      THEN DigitsEnd(s, intEnd + 1)
                      ELSE intEnd)

\* NUMBER_RE.match(s, i): the index after the number, 0 when there is none
MatchNumber(s, i) ==
    LET intStart == IF i <= Len(s) /\ s[i] = "-" THEN i + 1 ELSE i
    IN  IF ~(intStart <= Len(s) /\ IsDigit(s[intStart])) THEN 0
        ELSE NumberFraction(s, IF s[intStart] = "0" THEN intStart + 1
                               ELSE DigitsEnd(s, intStart))

\* a character below 0x20, which a strict JSON string may not hold
IsControl(c) == c \in {"CTL", "\t", "\n", "\f", "\r"}

\* BACKSLASH[esc], "none" for a character that is no escape
Unescape(esc) ==
    CASE esc = "\"" -> "\""
      [] esc = "\\" -> "\\"
      [] esc = "/" -> "/"
      [] esc = "b" -> "CTL"
      [] esc = "f" -> "\f"
      [] esc = "n" -> "\n"
      [] esc = "r" -> "\r"
      [] esc = "t" -> "\t"
      [] OTHER -> "none"

IsHighSurrogate(uni) == uni >= 55296 /\ uni <= 56319

IsLowSurrogate(uni) == uni >= 56320 /\ uni <= 57343

RECURSIVE ScanString(_, _, _)

\* after \uXXXX at s[j] with value uni: a surrogate pair is one character
ScanUnicode(s, j, chunk, uni) ==
    IF /\ IsHighSurrogate(uni)
       /\ IsUEscape(s, j + 6)
       /\ IsLowSurrogate(UEscapeValue(s, j + 6))
    THEN ScanString(s, j + 12,
                    Append(chunk,
                           CodePointChar(65536 + (uni - 55296) * 1024
                                           + (UEscapeValue(s, j + 6) - 56320))))
    ELSE ScanString(s, j + 6, Append(chunk, CodePointChar(uni)))

\* after a backslash at s[j] and a character that stands for char
ScanEscape(s, j, chunk, char) ==
    IF char = "none" THEN JsonFail
    ELSE ScanString(s, j + 2, Append(chunk, char))

\* at the terminator s[j] of a chunk
ScanTerminator(s, j, chunk) ==
    IF s[j] = "\"" THEN JsonOk(JStr(chunk), j + 1)
    ELSE IF s[j] # "\\" THEN JsonFail
    ELSE IF j + 1 > Len(s) THEN JsonFail
    ELSE IF s[j + 1] = "u"
    THEN IF ~IsUEscape(s, j) THEN JsonFail
         ELSE ScanUnicode(s, j, chunk, UEscapeValue(s, j))
    ELSE ScanEscape(s, j, chunk, Unescape(s[j + 1]))

\* the chunk that ends at the first of the terminators
ScanChunk(s, i, out, ends) ==
    IF ends = {} THEN JsonFail
    ELSE ScanTerminator(s, Min(ends), out \o SubSeq(s, i, Min(ends) - 1))

\* scanstring(s, i, strict=True), i the index after the opening quote: the
\* chunk up to the next quote, backslash or control character, then that
\* terminator
ScanString(s, i, out) ==
    ScanChunk(s, i, out,
              {j \in i..Len(s) : s[j] \in {"\"", "\\"} \/ IsControl(s[j])})

RECURSIVE ParseValue(_, _)
RECURSIVE ObjectMembers(_, _, _)
RECURSIVE ArrayItems(_, _, _)

\* JSONObject, i the index after "{"
ParseObject(s, i) ==
    LET j == SkipWs(s, i)
    IN  IF j > Len(s) THEN JsonFail
        ELSE IF s[j] = "}" THEN JsonOk(JDict(<<>>), j + 1)
        ELSE IF s[j] # "\"" THEN JsonFail
        ELSE ObjectMembers(s, j + 1, <<>>)

\* after a comma, q the index of the next key's opening quote
MemberOpen(s, now, q) ==
    IF q > Len(s) \/ s[q] # "\"" THEN JsonFail
    ELSE ObjectMembers(s, q + 1, now)

\* after a member, j the index of what follows it
MemberNext(s, now, j) ==
    IF j > Len(s) THEN JsonFail
    ELSE IF s[j] = "}" THEN JsonOk(JDict(now), j + 1)
    ELSE IF s[j] # "," THEN JsonFail
    ELSE MemberOpen(s, now, SkipWs(s, j + 1))

\* dict(pairs) keeps the first position and the last value of a repeated key
MemberValue(s, pairs, name, value) ==
    IF ~value.ok THEN JsonFail
    ELSE MemberNext(s, DictSet(pairs, name, value.val), SkipWs(s, value.end))

MemberColon(s, pairs, name, colon) ==
    IF colon > Len(s) \/ s[colon] # ":" THEN JsonFail
    ELSE MemberValue(s, pairs, name, ParseValue(s, SkipWs(s, colon + 1)))

MemberKey(s, pairs, key) ==
    IF ~key.ok THEN JsonFail
    ELSE MemberColon(s, pairs, key.val.v, SkipWs(s, key.end))

\* the member loop of JSONObject, i the index after the key's opening quote
ObjectMembers(s, i, pairs) == MemberKey(s, pairs, ScanString(s, i, <<>>))

\* JSONArray, i the index after "["
ParseArray(s, i) ==
    LET j == SkipWs(s, i)
    IN  IF j > Len(s) THEN JsonFail
        ELSE IF s[j] = "]" THEN JsonOk(JList(<<>>), j + 1)
        ELSE ArrayItems(s, j, <<>>)

\* after an item, j the index of what follows it
ItemNext(s, now, j) ==
    IF j > Len(s) THEN JsonFail
    ELSE IF s[j] = "]" THEN JsonOk(JList(now), j + 1)
    ELSE IF s[j] # "," THEN JsonFail
    ELSE ArrayItems(s, SkipWs(s, j + 1), now)

ItemValue(s, items, value) ==
    IF ~value.ok THEN JsonFail
    ELSE ItemNext(s, Append(items, value.val), SkipWs(s, value.end))

\* the item loop of JSONArray, i the index of the item
ArrayItems(s, i, items) == ItemValue(s, items, ParseValue(s, i))

JsonNull == <<"n","u","l","l">>
JsonTrue == <<"t","r","u","e">>
JsonFalse == <<"f","a","l","s","e">>
JsonNaN == <<"N","a","N">>
JsonInfinity == <<"I","n","f","i","n","i","t","y">>
JsonNegInfinity == <<"-">> \o JsonInfinity

\* the last cases of scan_once: a number that ends before index end (0: no
\* number), or one of NaN, Infinity, -Infinity
NumberOrConstant(s, i, end) ==
    IF end # 0 THEN JsonOk(JNum(SubSeq(s, i, end - 1)), end)
    ELSE IF MatchAt(s, i, JsonNaN) THEN JsonOk(JNum(JsonNaN), i + 3)
    ELSE IF MatchAt(s, i, JsonInfinity) THEN JsonOk(JNum(JsonInfinity), i + 8)
    ELSE IF MatchAt(s, i, JsonNegInfinity)
    THEN JsonOk(JNum(JsonNegInfinity), i + 9)
    ELSE JsonFail

\* scan_once(s, i)
ParseValue(s, i) ==
    IF i > Len(s) THEN JsonFail
    ELSE IF s[i] = "\"" THEN ScanString(s, i + 1, <<>>)
    ELSE IF s[i] = "{" THEN ParseObject(s, i + 1)
    ELSE IF s[i] = "[" THEN ParseArray(s, i + 1)
    ELSE IF MatchAt(s, i, JsonNull) THEN JsonOk(JLit(JsonNull), i + 4)
    ELSE IF MatchAt(s, i, JsonTrue) THEN JsonOk(JLit(JsonTrue), i + 4)
    ELSE IF MatchAt(s, i, JsonFalse) THEN JsonOk(JLit(JsonFalse), i + 5)
    ELSE NumberOrConstant(s, i, MatchNumber(s, i))

\* the value when only whitespace follows it
WholeText(s, value) ==
    IF value.ok /\ SkipWs(s, value.end) = Len(s) + 1 THEN value ELSE JsonFail

\* json.loads(s): one value between optional whitespace, and nothing else
JsonLoads(s) == WholeText(s, ParseValue(s, SkipWs(s, 1)))

---------------------------------------------------------------------------
(* The macro codec *)

\* json.loads(payload.decode("utf-8")) on the decoded text
LoadText(text) == IF ~text.ok THEN JsonFail ELSE JsonLoads(text.chars)

\* payload.decode("utf-8") on the decoded bytes
LoadPayload(payload) ==
    IF ~payload.ok THEN JsonFail ELSE LoadText(Utf8Decode(payload.bytes))

\* the body of the try block of _decode_macro_map:
\*     payload = base64.b64decode(encoded.encode("ascii"))
\*     return json.loads(payload.decode("utf-8"))
\* ok is FALSE when one of the four calls raises
DecodeAttempt(encoded) ==
    IF \E i \in 1..Len(encoded) : ~IsAscii(encoded[i]) THEN JsonFail
    ELSE LoadPayload(B64Decode(encoded))

MutNoExcept(attempt) == [raised |-> ~attempt.ok, val |-> attempt.val]

\* try: return ...; except Exception: return {}
FailOpen(attempt) ==
    [raised |-> FALSE, val |-> IF attempt.ok THEN attempt.val ELSE EmptyMap]

\* _decode_macro_map(encoded)
DecodeMacroMap(encoded) == FailOpen(DecodeAttempt(encoded))

---------------------------------------------------------------------------
(* _encode_macro_map: json.dumps, str.encode, base64.b64encode *)

\* the escape json.dumps (ensure_ascii) writes for one character; a class
\* token is written as one member of its class (U+0001, U+4E2D)
JsonEscape(c) ==
    CASE c = "\"" -> <<"\\", "\"">>
      [] c = "\\" -> <<"\\", "\\">>
      [] c = "\n" -> <<"\\", "n">>
      [] c = "\r" -> <<"\\", "r">>
      [] c = "\t" -> <<"\\", "t">>
      [] c = "\f" -> <<"\\", "f">>
      [] c = "CTL" -> <<"\\", "u", "0", "0", "0", "1">>
      [] c = "DEL" -> <<"\\", "u", "0", "0", "7", "f">>
      [] c = "U+00E9" -> <<"\\", "u", "0", "0", "e", "9">>
      [] c = "U+20AC" -> <<"\\", "u", "2", "0", "a", "c">>
      [] c = "U+1F600" -> <<"\\", "u", "d", "8", "3", "d",
                             "\\", "u", "d", "e", "0", "0">>
      [] c = "U+????" -> <<"\\", "u", "4", "e", "2", "d">>
      [] OTHER -> <<c>>

\* json.dumps of a str
JsonDumpsStr(s) ==
    <<"\"">> \o Concat([i \in 1..Len(s) |-> JsonEscape(s[i])]) \o <<"\"">>

\* json.dumps of a dict of str to str: {"k": "v", "k2": "v2"}
JsonDumps(map) ==
    <<"{">>
        \o Join(<<",", " ">>,
                [k \in 1..Len(map) |->
                    JsonDumpsStr(map[k][1]) \o <<":", " ">>
                        \o JsonDumpsStr(map[k][2])])
        \o <<"}">>

\* ord(c) of a character json.dumps leaves in its output: printable ASCII
CharCode(c) == 31 + (CHOOSE k \in 1..Len(AsciiPrintable) : AsciiPrintable[k] = c)

\* text.encode("utf-8") of the ASCII text json.dumps returns
Utf8Encode(text) == [i \in 1..Len(text) |-> CharCode(text[i])]

\* base64.b64encode(payload).decode("ascii")
B64Encode(payload) ==
    LET n == Len(payload)
        At(i) == IF i <= n THEN payload[i] ELSE 0
    IN  [k \in 1..(4 * ((n + 2) \div 3)) |->
            LET q == (k - 1) \div 4
                r == (k - 1) % 4
                word == At(3 * q + 1) * 65536 + At(3 * q + 2) * 256
                            + At(3 * q + 3)
                sextet == CASE r = 0 -> word \div 262144
                            [] r = 1 -> (word \div 4096) % 64
                            [] r = 2 -> (word \div 64) % 64
                            [] r = 3 -> word % 64
            IN  IF r >= 2 /\ 3 * q + r > n THEN B64Pad
                ELSE B64Alphabet[sextet + 1]]

MutNoPadding(map) ==
    SelectSeq(B64Encode(Utf8Encode(JsonDumps(map))), LAMBDA c : c # B64Pad)

\* _encode_macro_map(macro_map)
EncodeMacroMap(map) == B64Encode(Utf8Encode(JsonDumps(map)))

---------------------------------------------------------------------------
(* _escape_markdown_heading *)

MutHashFirst(text) ==
    Replace(Replace(Replace(Replace(text, <<"\r">>, <<" ">>),
                            <<"\n">>, <<" ">>),
                    <<"#">>, <<"\\", "#">>),
            <<"\\">>, <<"\\", "\\">>)

\* escaped = text.replace("\r", " ").replace("\n", " ")
\* escaped = escaped.replace("\\", "\\\\").replace("#", "\\#")
EscapeMarkdownHeading(text) ==
    Replace(Replace(Replace(Replace(text, <<"\r">>, <<" ">>),
                            <<"\n">>, <<" ">>),
                    <<"\\">>, <<"\\", "\\">>),
            <<"#">>, <<"\\", "#">>)

---------------------------------------------------------------------------
(* urllib.parse.urlparse, as far as _extract_page_id_from_url reads it *)

\* s.split(c) for a separator of one character
SplitOn(s, c) ==
    LET breaks == SortedSeq({i \in 1..Len(s) : s[i] = c})
    IN  [k \in 1..(Len(breaks) + 1) |->
            SubSeq(s, IF k = 1 THEN 1 ELSE breaks[k - 1] + 1,
                      IF k > Len(breaks) THEN Len(s) ELSE breaks[k] - 1)]

\* the first index from start on of a character of chars, Len(s) + 1 when
\* there is none
FirstOf(s, chars, start) ==
    Min({i \in start..Len(s) : s[i] \in chars} \cup {Len(s) + 1})

UpperLetters == {AsciiPrintable[k] : k \in 34..59}

LowerLetters == {AsciiPrintable[k] : k \in 66..91}

\* the characters a scheme is made of
SchemeChars ==
    UpperLetters \cup LowerLetters
        \cup {"0","1","2","3","4","5","6","7","8","9","+","-","."}

\* c.lower()
LowerChar(c) ==
    IF c \in UpperLetters
    THEN AsciiPrintable[(CHOOSE k \in 34..59 : AsciiPrintable[k] = c) + 32]
    ELSE c

\* urlsplit finds a scheme: a colon after a letter and scheme characters only
HasScheme(url) ==
    /\ FirstOf(url, {":"}, 1) > 1
    /\ FirstOf(url, {":"}, 1) <= Len(url)
    /\ url[1] \in UpperLetters \cup LowerLetters
    /\ \A k \in 1..(FirstOf(url, {":"}, 1) - 1) : url[k] \in SchemeChars

\* the scheme of a URL, in lower case, empty when it has none
UrlScheme(url) ==
    IF HasScheme(url)
    THEN [k \in 1..(FirstOf(url, {":"}, 1) - 1) |-> LowerChar(url[k])]
    ELSE <<>>

\* the URL after its scheme and the colon
AfterScheme(url) ==
    IF HasScheme(url) THEN SubSeq(url, FirstOf(url, {":"}, 1) + 1, Len(url))
    ELSE url

\* the URL after "//" and the network location, which ends at the first of
\* "/", "?" and "#"
AfterNetloc(rest) ==
    IF StartsWith(rest, <<"/", "/">>)
    THEN SubSeq(rest, FirstOf(rest, {"/", "?", "#"}, 3), Len(rest))
    ELSE rest

\* url.split("#", 1)[0]
BeforeFragment(rest) == SubSeq(rest, 1, FirstOf(rest, {"#"}, 1) - 1)

\* the schemes whose last path segment may carry parameters (uses_params)
UsesParams ==
    { <<>>,
      <<"f","t","p">>,
      <<"h","d","l">>,
      <<"p","r","o","s","p","e","r","o">>,
      <<"h","t","t","p">>,
      <<"i","m","a","p">>,
      <<"h","t","t","p","s">>,
      <<"s","h","t","t","p">>,
      <<"r","t","s","p">>,
      <<"r","t","s","p","u">>,
      <<"s","i","p">>,
      <<"s","i","p","s">>,
      <<"m","m","s">>,
      <<"s","f","t","p">>,
      <<"t","e","l">> }

\* _splitparams: the path up to the first ";" of its last segment
SplitParams(path) ==
    SubSeq(path, 1,
           FirstOf(path, {";"},
                   Max({i \in 1..Len(path) : path[i] = "/"} \cup {1})) - 1)

\* the path and the query of what is left of a URL after scheme, network
\* location and fragment
PathAndQuery(scheme, rest) ==
    [path |-> IF scheme \in UsesParams
              THEN SplitParams(SubSeq(rest, 1, FirstOf(rest, {"?"}, 1) - 1))
              ELSE SubSeq(rest, 1, FirstOf(rest, {"?"}, 1) - 1),
     query |-> SubSeq(rest, FirstOf(rest, {"?"}, 1) + 1, Len(rest))]

\* urlparse(url): its path and query
UrlParse(url) ==
    PathAndQuery(UrlScheme(url), BeforeFragment(AfterNetloc(AfterScheme(url))))

---------------------------------------------------------------------------
(* The CQL builders *)

\* s.lower(), for the characters of the model
Lower(s) == [k \in 1..Len(s) |-> LowerChar(s[k])]

CqlHead == <<"t","y","p","e","=","p","a","g","e"," ","A","N","D"," ","t","e","x","t","~","\"">>

CqlTail == <<"\""," ","o","r","d","e","r"," ","b","y"," ","l","a","s","t","m","o","d","i","f","i","e","d"," ","d","e","s","c">>

TypePage == <<"t","y","p","e","=","p","a","g","e">>

\* _build_text_search_cql(query)
BuildTextSearchCql(query_text) ==
    CqlHead \o Replace(query_text, <<"\"">>, <<"\\", "\"">>) \o CqlTail

MutCaseSensitive(cql_text) ==
    IF Contains(cql_text, TypePage) THEN cql_text
    ELSE <<"t","y","p","e","=","p","a","g","e"," ","A","N","D"," ","(">> \o cql_text \o <<")">>

\* _ensure_page_cql(cql)
EnsurePageCql(cql_text) ==
    IF Contains(Lower(cql_text), TypePage) THEN cql_text
    ELSE <<"t","y","p","e","=","p","a","g","e"," ","A","N","D"," ","(">> \o cql_text \o <<")">>

---------------------------------------------------------------------------
(* _is_table_separator, _split_table_row and _build_rich_renderables *)

\* one column of a separator: :?-{3,}:?
IsDashCell(cell) ==
    /\ Len(cell) >= 3
    /\ \E lo \in 1..2, hi \in (Len(cell) - 1)..Len(cell) :
          /\ hi - lo >= 2
          /\ \A k \in lo..hi : cell[k] = "-"
          /\ lo = 2 => cell[1] = ":"
          /\ hi = Len(cell) - 1 => cell[Len(cell)] = ":"

\* stripped[1:] when stripped starts with "|"
DropLeadingPipe(row) ==
    IF StartsWith(row, <<"|">>) THEN SubSeq(row, 2, Len(row))
    ELSE row

\* stripped[:-1] when stripped ends with "|"
DropTrailingPipe(row) ==
    IF row # <<>> /\ row[Len(row)] = "|"
    THEN SubSeq(row, 1, Len(row) - 1)
    ELSE row

\* the columns a line has between its optional outer pipes
PipeCells(line) ==
    SplitOn(DropTrailingPipe(DropLeadingPipe(Strip(line))), "|")

\* _is_table_separator(line): the pattern
\* ^\s*\|?\s*:?-{3,}:?\s*(\|\s*:?-{3,}:?\s*)+\|?\s*$ asks for two columns or more
IsTableSeparator(line) ==
    /\ Len(PipeCells(line)) >= 2
    /\ \A k \in 1..Len(PipeCells(line)) : IsDashCell(Strip(PipeCells(line)[k]))

\* _split_table_row(line)
SplitTableRow(line) ==
    [k \in 1..Len(PipeCells(line)) |-> Strip(PipeCells(line)[k])]

\* lines[index].strip() and "|" in lines[index]
IsDataRow(line) == Strip(line) # <<>> /\ Contains(line, <<"|">>)

\* the index, counted from 0, at which the loop over the data rows ends
RowsEnd(all_lines, start) ==
    Min({i \in start..(Len(all_lines) - 1) : ~IsDataRow(all_lines[i + 1])}
            \cup {Len(all_lines)})

\* row + [""] * (len(header) - len(row)), and row[: len(header)]
FitRow(row, width) ==
    [k \in 1..width |-> IF k <= Len(row) THEN row[k] ELSE <<>>]

Markdown(text) ==
    [kind |-> "Markdown", text |-> text, style |-> "", columns |-> <<>>,
     rows |-> <<>>]

Text(text, style) ==
    [kind |-> "Text", text |-> text, style |-> style, columns |-> <<>>,
     rows |-> <<>>]

\* the Table with a column for each cell of the header and the rows added
Table(header, rows) ==
    [kind |-> "Table", text |-> <<>>, style |-> "", columns |-> header,
     rows |-> [k \in 1..Len(rows) |-> FitRow(rows[k], Len(header))]]

MutDropPending(done, pending) == done

\* if text_lines: renderables.append(Markdown("\n".join(text_lines)))
Flushed(done, pending) ==
    IF pending = <<>> THEN done
    ELSE Append(done, Markdown(Join(<<"\n">>, pending)))

\* the first test of the loop body: a header and a separator stand at index
AtTable(all_lines, i) ==
    /\ Contains(all_lines[i + 1], <<"|">>)
    /\ i + 1 < Len(all_lines)
    /\ IsTableSeparator(all_lines[i + 2])

\* the prefix of a heading line, empty when the line is no heading
HeadingPrefix(line) ==
    IF StartsWith(line, <<"#", " ">>) THEN <<"#", " ">>
    ELSE IF StartsWith(line, <<"#", "#", " ">>) THEN <<"#", "#", " ">>
    ELSE IF StartsWith(line, <<"#", "#", "#", " ">>)
         THEN <<"#", "#", "#", " ">>
         ELSE <<>>

HeadingStyle(prefix) ==
    CASE Len(prefix) = 2 -> "bold magenta"
      [] Len(prefix) = 3 -> "bold blue"
      [] OTHER -> "bold green"

---------------------------------------------------------------------------
(* ConfluenceClient.__init__ *)

\* an argument left at its default None, and an argument given as a text
NoneArg == [given |-> FALSE, value |-> <<>>]

Arg(text) == [given |-> TRUE, value |-> text]

NoCredentials ==
    [base_url |-> <<>>, username |-> NoneArg, password |-> NoneArg,
     token |-> NoneArg]

NoClient == [made |-> FALSE, base_url |-> <<>>, authorization |-> <<>>,
             auth |-> FALSE, error |-> ""]

\* `if value`: neither None nor the empty text
Truthy(arg) == arg.given /\ arg.value # <<>>

\* base_url.rstrip("/")
RStripSlash(text) ==
    SubSeq(text, 1, Max({i \in 1..Len(text) : text[i] # "/"} \cup {0}))

\* "Basic " and base64.b64encode(f"{user}:{secret}".encode()).decode()
BasicAuth(user, secret) ==
    <<"B","a","s","i","c"," ">> \o B64Encode(Utf8Encode(user \o <<":">> \o secret))

MutBearerFirst(given) ==
    IF Truthy(given.token)
    THEN [made |-> TRUE, base_url |-> RStripSlash(given.base_url),
          authorization |-> <<"B","e","a","r","e","r"," ">> \o given.token.value,
          auth |-> FALSE, error |-> ""]
    ELSE IF Truthy(given.username) /\ Truthy(given.password)
    THEN [made |-> TRUE, base_url |-> RStripSlash(given.base_url),
          authorization |-> BasicAuth(given.username.value,
                                      given.password.value),
          auth |-> TRUE, error |-> ""]
    ELSE [NoClient EXCEPT !.error = "ValueError"]

\* the client __init__ leaves, or the ValueError it raises with the message
\* Either token or username/password must be provided
NewClient(given) ==
    IF Truthy(given.token)
    THEN [made |-> TRUE, base_url |-> RStripSlash(given.base_url),
          authorization |->
              IF Truthy(given.username)
              THEN BasicAuth(given.username.value, given.token.value)
              ELSE <<"B","e","a","r","e","r"," ">> \o given.token.value,
          auth |-> FALSE, error |-> ""]
    ELSE IF Truthy(given.username) /\ Truthy(given.password)
    THEN [made |-> TRUE, base_url |-> RStripSlash(given.base_url),
          authorization |-> BasicAuth(given.username.value,
                                      given.password.value),
          auth |-> TRUE, error |-> ""]
    ELSE [NoClient EXCEPT !.error = "ValueError"]

---------------------------------------------------------------------------
(* list_recent_pages and list_recently_viewed_pages *)

\* _recent_pages_cql_variants()
RecentPagesCqlVariants ==
    << <<"t","y","p","e","=","p","a","g","e"," ","A","N","D"," ","l","a","s","t","M","o","d","i","f","i","e","d","B","y","=","c","u","r","r","e","n","t","U","s","e","r","(",")"," ","o","r","d","e","r"," ","b","y"," ","l","a","s","t","m","o","d","i","f","i","e","d"," ","d","e","s","c">>,
       <<"t","y","p","e","=","p","a","g","e"," ","A","N","D"," ","c","o","n","t","r","i","b","u","t","o","r","=","c","u","r","r","e","n","t","U","s","e","r","(",")"," ","o","r","d","e","r"," ","b","y"," ","l","a","s","t","m","o","d","i","f","i","e","d"," ","d","e","s","c">>,
       <<"t","y","p","e","=","p","a","g","e"," ","A","N","D"," ","c","r","e","a","t","o","r","=","c","u","r","r","e","n","t","U","s","e","r","(",")"," ","o","r","d","e","r"," ","b","y"," ","l","a","s","t","m","o","d","i","f","i","e","d"," ","d","e","s","c">>,
       <<"t","y","p","e","=","p","a","g","e"," ","o","r","d","e","r"," ","b","y"," ","l","a","s","t","m","o","d","i","f","i","e","d"," ","d","e","s","c">> >>

\* _recently_viewed_cql_variants()
RecentlyViewedCqlVariants ==
    << <<"t","y","p","e","=","p","a","g","e"," ","A","N","D"," ","l","a","s","t","V","i","e","w","e","d"," ","i","s"," ","n","o","t"," ","E","M","P","T","Y"," ","o","r","d","e","r"," ","b","y"," ","l","a","s","t","V","i","e","w","e","d"," ","d","e","s","c">>,
       <<"t","y","p","e","=","p","a","g","e"," ","A","N","D"," ","l","a","s","t","v","i","e","w","e","d"," ","i","s"," ","n","o","t"," ","E","M","P","T","Y"," ","o","r","d","e","r"," ","b","y"," ","l","a","s","t","v","i","e","w","e","d"," ","d","e","s","c">>,
       <<"t","y","p","e","=","p","a","g","e"," ","o","r","d","e","r"," ","b","y"," ","l","a","s","t","m","o","d","i","f","i","e","d"," ","d","e","s","c">> >>

\* the variants a listing goes through
VariantsOf(which) ==
    IF which = "recent" THEN RecentPagesCqlVariants
    ELSE RecentlyViewedCqlVariants

\* the texts of a response the loop tells apart
ResponseTexts == {"No field exists", "Could not parse cql", "other"}

\* the second test of the loop body: the variant is rejected
IsRejection(response) ==
    /\ response.status = 400
    /\ response.text \in {"No field exists", "Could not parse cql"}

\* response.raise_for_status() raises: the status is 4xx or 5xx
RaisesForStatus(status) == status >= 400 /\ status < 600

---------------------------------------------------------------------------
(* _extract_page_id_from_url and get_page_by_url *)

\* return None
NoPageId == [found |-> FALSE, id |-> <<>>]

PageIdParam == <<"p","a","g","e","I","d","=">>

PagesSegment == <<"p","a","g","e","s">>

\* candidate.isdigit(), for the characters of the model
IsDigitStr(s) ==
    /\ s # <<>>
    /\ \A i \in 1..Len(s) : s[i] \in {"0","1","2","3","4","5","6","7","8","9"}

\* the loop over query.split("&"): param.split("=")[1] of the first param
\* that starts with "pageId=", nothing when there is no such param
FromQuery(params) ==
    IF \E k \in 1..Len(params) : StartsWith(params[k], PageIdParam)
    THEN [found |-> TRUE,
          id |-> SplitOn(params[Min({k \in 1..Len(params) :
                                        StartsWith(params[k], PageIdParam)})],
                         "=")[2]]
    ELSE NoPageId

MutNoDigitCheck(path_parts) ==
    IF \E i \in 1..(Len(path_parts) - 1) : path_parts[i] = PagesSegment
    THEN [found |-> TRUE,
          id |-> path_parts[Min({i \in 1..(Len(path_parts) - 1) :
                                    path_parts[i] = PagesSegment}) + 1]]
    ELSE NoPageId

\* the loop over path_parts: the part after the first "pages" that has a part
\* after it, when that part is made of digits; the loop ends there
FromPath(path_parts) ==
    IF \E i \in 1..(Len(path_parts) - 1) : path_parts[i] = PagesSegment
    THEN IF IsDigitStr(path_parts[Min({i \in 1..(Len(path_parts) - 1) :
                                          path_parts[i] = PagesSegment}) + 1])
         THEN [found |-> TRUE,
               id |-> path_parts[Min({i \in 1..(Len(path_parts) - 1) :
                                         path_parts[i] = PagesSegment}) + 1]]
         ELSE NoPageId
    ELSE NoPageId

\* the two formats in turn: the query parameter, then the path
FromParsed(parsed) ==
    IF /\ Contains(parsed.query, PageIdParam)
       /\ FromQuery(SplitOn(parsed.query, "&")).found
    THEN FromQuery(SplitOn(parsed.query, "&"))
    ELSE FromPath(SplitOn(parsed.path, "/"))

\* _extract_page_id_from_url(page_url)
ExtractPageIdFromUrl(url) ==
    IF url = <<>> THEN NoPageId ELSE FromParsed(UrlParse(url))

\* `if not page_id`: None and the empty string
NotPageId(page_id) == ~page_id.found \/ page_id.id = <<>>

---------------------------------------------------------------------------
(* The macro block of the edit buffer *)

\* the text of the pattern before its group: "<!-- CONFLUENCE_MACROS_START\n"
MacroBlockStart ==
    <<"<","!","-","-"," ","C","O","N","F","L","U","E","N","C","E","_",
      "M","A","C","R","O","S","_","S","T","A","R","T","\n">>

\* the text of the pattern after its group: "\nCONFLUENCE_MACROS_END -->"
MacroBlockEnd ==
    <<"\n","C","O","N","F","L","U","E","N","C","E","_","M","A","C","R","O","S",
      "_","E","N","D"," ","-","-",">">>

NoMatch == [found |-> FALSE, start |-> 0, group |-> <<>>, end |-> 0]

\* re.search of START(.*?)END with re.DOTALL in content[from-1:]: the leftmost
\* START that has an END after it, the group reaching to the first such END;
\* end is the index after the match
SearchMacroBlock(content, from) ==
    LET ends == {j \in from..Len(content) : MatchAt(content, j, MacroBlockEnd)}
        starts == {i \in from..Len(content) :
                      /\ MatchAt(content, i, MacroBlockStart)
                      /\ \E j \in ends : j >= i + Len(MacroBlockStart)}
    IN  IF starts = {} THEN NoMatch
        ELSE LET i == Min(starts)
                 j == Min({e \in ends : e >= i + Len(MacroBlockStart)})
             IN  [found |-> TRUE, start |-> i,
                  group |-> SubSeq(content, i + Len(MacroBlockStart), j - 1),
                  end |-> j + Len(MacroBlockEnd)]

\* if not match: return {}; else the decoded group
DecodeMatch(match) ==
    IF ~match.found THEN [raised |-> FALSE, val |-> EmptyMap]
    ELSE DecodeMacroMap(Strip(match.group))

\* _extract_macro_map_from_markdown(content)
ExtractMacroMapFromMarkdown(content) ==
    DecodeMatch(SearchMacroBlock(content, 1))

RECURSIVE RemoveFrom(_, _)

MutKeepNewline(content, i, match) ==
    IF ~match.found THEN SubSeq(content, i, Len(content))
    ELSE SubSeq(content, i, match.start - 1) \o RemoveFrom(content, match.end)

\* the text from index i on without the match and without what re.sub finds
\* after it; the match takes the line feed after it when there is one
RemoveMatch(content, i, match) ==
    IF ~match.found THEN SubSeq(content, i, Len(content))
    ELSE SubSeq(content, i, match.start - 1)
            \o RemoveFrom(content,
                          IF /\ match.end <= Len(content)
                             /\ content[match.end] = "\n"
                          THEN match.end + 1 ELSE match.end)

\* re.sub of the pattern with a trailing "\n?" by "", from index i on
RemoveFrom(content, i) == RemoveMatch(content, i, SearchMacroBlock(content, i))

\* _remove_macro_block(content)
RemoveMacroBlock(content) == RemoveFrom(content, 1)

---------------------------------------------------------------------------
(* The edit buffer: what edit_page_with_editor writes and how it reads the *)
(* edited text back                                                        *)

\* "<!-- Edit the content below. Lines starting with <!-- are comments and
\* will be ignored -->\n"
EditHint ==
    <<"<","!","-","-"," ","E","d","i","t"," ","t","h","e"," ","c","o","n","t",
      "e","n","t"," ","b","e","l","o","w","."," ","L","i","n","e","s"," ","s",
      "t","a","r","t","i","n","g"," ","w","i","t","h"," ","<","!","-","-"," ",
      "a","r","e"," ","c","o","m","m","e","n","t","s"," ","a","n","d"," ","w",
      "i","l","l"," ","b","e"," ","i","g","n","o","r","e","d"," ","-","-",">",
      "\n">>

\* f"<!-- Page ID: {id}, Version: {number} -->\n\n"
PageInfo(id, number) ==
    <<"<","!","-","-"," ","P","a","g","e"," ","I","D",":"," ">> \o id
        \o <<","," ","V","e","r","s","i","o","n",":"," ">> \o IntToStr(number)
        \o <<" ","-","-",">","\n","\n">>

MutAlwaysBlock(page, current_markdown, map) ==
    << <<"#", " ">> \o page.title \o <<"\n", "\n">>,
       EditHint,
       PageInfo(page.id, page.version),
       current_markdown,
       <<"\n", "\n">> \o MacroBlockStart,
       EncodeMacroMap(map),
       MacroBlockEnd \o <<"\n">> >>

\* the temp_file.write calls of the with block, in order
BufferWrites(page, current_markdown, map) ==
    << <<"#", " ">> \o page.title \o <<"\n", "\n">>,
       EditHint,
       PageInfo(page.id, page.version),
       current_markdown >>
    \o (IF map # <<>>
        THEN << <<"\n", "\n">> \o MacroBlockStart,
                EncodeMacroMap(map),
                MacroBlockEnd \o <<"\n">> >>
        ELSE <<>>)

\* everything the with block writes to temp_file
BufferText(page, current_markdown, map) ==
    Concat(BufferWrites(page, current_markdown, map))

\* the encodings a text file may be opened in
Encodings == {"utf-8", "cp1252"}

\* the character has an encoding: cp1252 has none for a character outside
\* Latin-1 and its own additions
Encodable(c, enc) == enc = "utf-8" \/ c \notin {"U+1F600", "U+????"}

\* the first write whose text cannot be encoded, 0 when every write succeeds
FailingWrite(writes, enc) ==
    LET bad == {k \in 1..Len(writes) :
                   \E i \in 1..Len(writes[k]) : ~Encodable(writes[k][i], enc)}
    IN  IF bad = {} THEN 0 ELSE Min(bad)

CommentOpen == <<"<", "!", "-", "-">>

CommentClose == <<"-", "-", ">">>

TitleMark == <<"#", " ">>

\* line.startswith("<!--") and "-->" in line
IsCommentLine(line) == StartsWith(line, CommentOpen) /\ Contains(line, CommentClose)

MutDropAllTitles(lines) ==
    SelectSeq(lines, LAMBDA line : /\ ~IsCommentLine(line)
                                   /\ ~StartsWith(line, TitleMark))

\* the loop over lines: comment lines are skipped, and the first line that
\* starts with "# " while skip_title is set
ContentLines(lines) ==
    LET titles == {k \in 1..Len(lines) :
                      ~IsCommentLine(lines[k]) /\ StartsWith(lines[k], TitleMark)}
        kept == SortedSeq({k \in 1..Len(lines) :
                              /\ ~IsCommentLine(lines[k])
                              /\ (titles = {} \/ k # Min(titles))})
    IN  [k \in 1..Len(kept) |-> lines[kept[k]]]

\* cleaned_content before the restoration loop
CleanedContent(edited) ==
    Strip(Join(<<"\n">>, ContentLines(SplitLines(RemoveMacroBlock(edited)))))

\* the restoration loop on a decoded value: a value that is no dict has no
\* items() (AttributeError), str.replace takes no value that is not a str
\* (TypeError)
RestoreDecoded(cleaned, val) ==
    IF val.t # "dict" THEN [raised |-> "AttributeError", text |-> cleaned]
    ELSE IF \E k \in 1..Len(val.v) : val.v[k][2].t # "str"
    THEN [raised |-> "TypeError", text |-> cleaned]
    ELSE [raised |-> "",
          text |-> RestoreLoop(cleaned,
                               [k \in 1..Len(val.v) |->
                                   <<val.v[k][1], val.v[k][2].v>>], 1)]

---------------------------------------------------------------------------
(* Specification of the extractor: a parsed document is drawn, extracted  *)
(* and rendered, and the placeholders of the returned map are put back.   *)

\* the extractor's variables while another part of the client is followed
XIdle ==
    /\ xpc = "idle"
    /\ doc0 = <<>>
    /\ soup = <<>>
    /\ macro_tags = <<>>
    /\ macro_map = <<>>
    /\ markdown = <<>>
    /\ restored = <<>>

\* no map was encoded: the text comes from elsewhere
NoMap == [given |-> FALSE, map |-> <<>>]

\* the codec's variables while another part of the client is followed
CIdle ==
    /\ cpc = "idle"
    /\ source_map = NoMap
    /\ encoded_text = <<>>
    /\ decoded = [raised |-> FALSE, val |-> EmptyMap]
    /\ document = <<>>
    /\ extracted = [raised |-> FALSE, val |-> EmptyMap]
    /\ stripped = <<>>

NoPage == [id |-> <<>>, title |-> <<>>, version |-> 0, body |-> <<>>]

NoFile == [created |-> FALSE, exists |-> FALSE, mtime |-> 0, text |-> <<>>]

NoEditor == [ran |-> FALSE, returncode |-> 0, removed |-> FALSE]

NoOutput ==
    [title |-> <<>>, id |-> <<>>, version |-> 0, markdown |-> <<>>,
     saved |-> FALSE]

\* the variables of a call before it has done anything
SFresh ==
    /\ gets = 0
    /\ fetch_status = 0
    /\ announced = FALSE
    /\ output = NoOutput
    /\ page_data = NoPage
    /\ temp_file = NoFile
    /\ original_mtime = 0
    /\ editor = NoEditor
    /\ edited_content = <<>>
    /\ edited_map = EmptyMap
    /\ cleaned_content = <<>>
    /\ puts = <<>>
    /\ response_status = 0
    /\ result = ""
    /\ error = ""

\* the variables of each helper while another part is followed
HeadIdle ==
    /\ heading = <<>>
    /\ escaped = <<>>
    /\ buffer_text = <<>>
    /\ content_lines = <<>>
    /\ cleaned_text = <<>>

UIdle ==
    /\ url_text = <<>>
    /\ url_id = NoPageId

QIdle ==
    /\ query = <<>>
    /\ text_cql = <<>>
    /\ ensured = <<>>
    /\ ensured_twice = <<>>

RIdle ==
    /\ md_lines = <<>>
    /\ index = 0
    /\ text_lines = <<>>
    /\ renderables = <<>>

IIdle ==
    /\ credentials = NoCredentials
    /\ client = NoClient

LIdle ==
    /\ listing = "none"
    /\ requests = <<>>
    /\ data = 0
    /\ raised = ""

NoArgs ==
    [action |-> "none", url |-> FALSE, content |-> FALSE, base_url |-> FALSE,
     token |-> FALSE, username |-> FALSE, password |-> FALSE]

MIdle ==
    /\ args = NoArgs
    /\ call_outcome = "none"
    /\ printed = <<>>
    /\ exit_status = -1

\* the helpers' variables while another part of the client is followed
HIdle ==
    /\ hpc = "idle"
    /\ HeadIdle
    /\ UIdle
    /\ QIdle
    /\ RIdle
    /\ IIdle
    /\ LIdle
    /\ MIdle

\* the session's variables while another part of the client is followed
SIdle ==
    /\ op = "none"
    /\ page_url = <<>>
    /\ state = "idle"
    /\ encoding = "utf-8"
    /\ server_version = 0
    /\ SFresh

XInit ==
    /\ CIdle
    /\ SIdle
    /\ HIdle
    /\ xpc = "parsed"
    /\ doc0 \in Docs
    /\ soup = doc0
    /\ macro_tags = <<>>
    /\ macro_map = <<>>
    /\ markdown = <<>>
    /\ restored = <<>>

\* _html_to_markdown_with_macros
Extract ==
    /\ xpc = "parsed"
    /\ LET tags == CollectMacroTags(soup, 1)
           out == ReplaceLoop(soup, tags, 1, 1, <<>>)
       IN  /\ macro_tags' = tags
           /\ soup' = out.soup
           /\ macro_map' = out.macro_map
           /\ markdown' = RenderMarkdown(out.soup)
    /\ xpc' = "extracted"
    /\ UNCHANGED <<doc0, restored, cvars, svars,
                   hvars>>

\* the restoration loop of edit_page_with_editor on the rendered text
Restore ==
    /\ xpc = "extracted"
    /\ restored' = RestoreLoop(markdown, macro_map, 1)
    /\ xpc' = "restored"
    /\ UNCHANGED <<doc0, soup, macro_tags, macro_map, markdown, cvars, svars,
                   hvars>>

XNext == Extract \/ Restore

SpecExtract == XInit /\ [][XNext]_vars

---------------------------------------------------------------------------
(* Properties of the extractor *)

\* the macro elements of d that lie inside no other macro element
Outermost(d) ==
    {i \in 1..Len(d) :
        /\ IsMacroTag(d, i)
        /\ \A a \in AncestorsOf(d, i) : ~IsMacroTag(d, a)}

\* the macro elements of d nested inside another macro element
Nested(d) ==
    {i \in 1..Len(d) :
        /\ IsMacroTag(d, i)
        /\ \E a \in AncestorsOf(d, i) : IsMacroTag(d, a)}

RECURSIVE RenderInlined(_, _)
\* the rendering of node i with every outermost macro element written out as
\* its own markup
RenderInlined(d, i) ==
    IF d[i].kind = "text" THEN d[i].text
    ELSE IF IsMacroTag(d, i) THEN Serialize(d, i)
    ELSE LET kids == ChildrenOf(d, i)
             inner == Concat([k \in 1..Len(kids) |-> RenderInlined(d, kids[k])])
         IN  IF d[i].name = <<"p">> THEN inner \o <<"\n", "\n">> ELSE inner

ExpectedRestored(d) ==
    LET kids == ChildrenOf(d, 0)
    IN  Strip(Concat([k \in 1..Len(kids) |-> RenderInlined(d, kids[k])]))

\* no string outside the macro elements has the text of a placeholder in use
TextOutsideMacrosClean(d) ==
    \A i \in 1..Len(d) :
        (d[i].kind = "text" /\ \A a \in AncestorsOf(d, i) : ~IsMacroTag(d, a))
            => \A k \in 1..Cardinality(Outermost(d)) :
                  ~Contains(d[i].text, Placeholder(k))

\* C1 (as claimed): extraction followed by the restoration loop reproduces the
\* markup of every outermost macro element byte for byte, for any document
\* whose macro elements are disjoint: the restored text is the rendering with
\* each macro element written out as its markup.
C1_RoundTripPreservesMacros ==
    (xpc = "restored" /\ TextOutsideMacrosClean(doc0))
        => restored = ExpectedRestored(doc0)

\* C2: a macro element with a macro ancestor never gets a placeholder of its
\* own: only outermost elements are in macro_tags, the map has one entry per
\* outermost element, and the nested element's markup lies verbatim inside the
\* string stored for its outermost macro ancestor.
C2_NestedMacroNotExtracted ==
    xpc # "parsed" =>
        /\ Len(macro_map) = Cardinality(Outermost(doc0))
        /\ \A i \in Nested(doc0) :
              /\ \A k \in 1..Len(macro_tags) : macro_tags[k] # i
              /\ \E k \in 1..Len(macro_tags) :
                    /\ macro_tags[k] \in AncestorsOf(doc0, i) \cap Outermost(doc0)
                    /\ DictHas(macro_map, Placeholder(k))
                    /\ Contains(DictGet(macro_map, Placeholder(k)),
                                Serialize(doc0, i))

C2_Witness ==
    /\ xpc = "extracted"
    /\ Nested(doc0) # {}
    /\ Len(macro_map) = 1

\* C3: with N outermost macro elements the map has exactly the keys
\* [[CONFLUENCE-MACRO-1]] .. [[CONFLUENCE-MACRO-N]], in that order, and the
\* k-th key holds the markup of the k-th outermost element in document order.
C3_PlaceholderNumbering ==
    xpc # "parsed" =>
        LET top == SortedSeq(Outermost(doc0))
        IN  /\ Len(macro_map) = Len(top)
            /\ macro_tags = top
            /\ \A k \in 1..Len(top) :
                  macro_map[k] = <<Placeholder(k), Serialize(doc0, top[k])>>
            /\ \A j, k \in 1..Len(macro_map) :
                  j # k => macro_map[j][1] # macro_map[k][1]

C3_Witness ==
    /\ xpc = "extracted"
    /\ Cardinality(Outermost(doc0)) = 3
    /\ DictKeys(macro_map) = {Placeholder(1), Placeholder(2), Placeholder(3)}

\* the orders in which n entries can be taken
Orders(n) == {p \in [1..n -> 1..n] : \A i, j \in 1..n : i # j => p[i] # p[j]}

\* C14 (as claimed): the restoration by str.replace ends in the same text in
\* whatever order the placeholders of the map are substituted, macro markup
\* that holds text of the placeholder form included.
C14_RestoreOrderInsignificant ==
    xpc = "restored" =>
        \A p \in Orders(Len(macro_map)) :
            RestoreLoop(markdown,
                        [k \in 1..Len(macro_map) |-> macro_map[p[k]]], 1)
                = restored

\* C15 (as claimed): the placeholders of one extraction differ from each
\* other and from every text the document held before, so the restoration
\* loop rewrites only the places where the extractor put a placeholder: the
\* restored text is the rendering with each macro element written out as its
\* markup.
C15_PlaceholderNeverCollides ==
    /\ xpc # "parsed" =>
          /\ \A j, k \in 1..Len(macro_map) :
                j # k => macro_map[j][1] # macro_map[k][1]
          /\ \A k \in 1..Len(macro_map), i \in 1..Len(doc0) :
                ~Contains(doc0[i].text, macro_map[k][1])
    /\ xpc = "restored" => restored = ExpectedRestored(doc0)

---------------------------------------------------------------------------
(* Specification of the codec: _decode_macro_map is given a payload, which *)
(* is any text or what _encode_macro_map made of a map, and                *)
(* _extract_macro_map_from_markdown and _remove_macro_block a document     *)
(* built around that payload.                                              *)

\* Longest run of stray characters put before and after a payload.
MaxJunk == 1

JunkChars == {"!", "=", " "}

\* the runs of stray characters
Junk == UNION {[1..k -> JunkChars] : k \in 0..MaxJunk}

\* Payloads a buffer may carry: the encodings of {}, 123, null, [],
\* {"a":"b"} and {"a":1}, bytes that are not UTF-8 (abcd, /w==), UTF-8 that is
\* not JSON (ew==), truncated and misplaced padding, text that is not base64
\* at all, and a character outside ASCII.
PayloadCores ==
    { <<>>,
      <<"e","3","0","=">>,
      <<"M","T","I","z">>,
      <<"b","n","V","s","b","A","=","=">>,
      <<"W","1","0","=">>,
      <<"e","y","J","h","I","j","o","i","Y","i","J","9">>,
      <<"e","y","J","h","I","j","o","x","f","Q","=","=">>,
      <<"a","b","c","d">>,
      <<"/","w","=","=">>,
      <<"e","w","=","=">>,
      <<"a","b","c">>,
      <<"e","3","0">>,
      <<"M","=","Q","=","=">>,
      <<"n","o","t","-","b","a","s","e","6","4","!","!","!">>,
      <<"U+00E9">> }

Payloads == {pre \o core \o post : pre \in Junk, core \in PayloadCores,
                                   post \in Junk}

\* Strings a macro map may hold as markup: none, an element, quotes and
\* backslashes, line feed and tab, characters outside ASCII, a character
\* outside the basic plane, control characters, and the six characters of a
\* JSON escape.
MarkupValues ==
    { <<>>,
      <<"<","a","c",":","x","/",">">>,
      <<"a","=","\"","\\","\"">>,
      <<"\n","\t">>,
      <<"U+00E9","U+20AC","U+????">>,
      <<"U+1F600">>,
      <<"CTL","DEL">>,
      <<"\\","u","0","0","e","9">> }

\* the maps handed to _encode_macro_map: no entry, one entry under a
\* placeholder or under a key outside ASCII, two entries under the first two
\* placeholders
MacroMaps ==
    {<<>>}
        \cup {<< <<key, value>> >> :
                 key \in {Placeholder(1), <<"U+00E9">>},
                 value \in MarkupValues}
        \cup {<< <<Placeholder(1), v1>>, <<Placeholder(2), v2>> >> :
                 v1 \in MarkupValues, v2 \in MarkupValues}

BodyText == <<"H","i","\n","\n">>

\* a block as the user may have typed or pasted it: the encoding of {}
OtherBlock ==
    MacroBlockStart \o <<"e","3","0","=">> \o MacroBlockEnd \o <<"\n">>

\* what may follow the block of a document: nothing, the line feed the buffer
\* ends with, a blank line and text, text on the same line, another block
\* right after it or after a line of text
Tails ==
    { <<>>,
      <<"\n">>,
      <<"\n","\n","x">>,
      <<"x","\n">>,
      <<"\n">> \o OtherBlock,
      <<"\n","x","\n">> \o OtherBlock }

\* documents around a payload: without a block, with the block, with a block
\* that lacks one of its delimiters
DocumentsOf(payload) ==
    {pre \o block : pre \in {<<>>, BodyText},
                    block \in { <<>>,
                                MacroBlockStart \o payload,
                                payload \o MacroBlockEnd }
                              \cup {MacroBlockStart \o payload
                                        \o MacroBlockEnd \o tail :
                                            tail \in Tails}}

CInit ==
    /\ XIdle
    /\ SIdle
    /\ HIdle
    /\ \/ /\ cpc = "map"
          /\ source_map \in {[given |-> TRUE, map |-> map] : map \in MacroMaps}
          /\ encoded_text = <<>>
          /\ document = <<>>
       \/ /\ cpc = "input"
          /\ source_map = NoMap
          /\ encoded_text \in Payloads
          /\ document \in DocumentsOf(encoded_text)
    /\ decoded = [raised |-> FALSE, val |-> EmptyMap]
    /\ extracted = [raised |-> FALSE, val |-> EmptyMap]
    /\ stripped = <<>>

\* _encode_macro_map(source_map), and the result put into a document
Encode ==
    /\ cpc = "map"
    /\ encoded_text' = EncodeMacroMap(source_map.map)
    /\ document' \in DocumentsOf(encoded_text')
    /\ cpc' = "input"
    /\ UNCHANGED <<source_map, decoded, extracted, stripped, xvars, svars,
                   hvars>>

\* _decode_macro_map(encoded_text)
Decode ==
    /\ cpc = "input"
    /\ decoded' = DecodeMacroMap(encoded_text)
    /\ cpc' = "decoded"
    /\ UNCHANGED <<source_map, encoded_text, document, extracted, stripped,
                   xvars, svars,
                   hvars>>

\* _extract_macro_map_from_markdown(document)
ExtractMap ==
    /\ cpc = "decoded"
    /\ extracted' = ExtractMacroMapFromMarkdown(document)
    /\ cpc' = "extracted"
    /\ UNCHANGED <<source_map, encoded_text, document, decoded, stripped,
                   xvars, svars,
                   hvars>>

\* _remove_macro_block(document)
RemoveBlock ==
    /\ cpc = "extracted"
    /\ stripped' = RemoveMacroBlock(document)
    /\ cpc' = "removed"
    /\ UNCHANGED <<source_map, encoded_text, document, decoded, extracted,
                   xvars, svars,
                   hvars>>

CNext == Encode \/ Decode \/ ExtractMap \/ RemoveBlock

SpecCodec == CInit /\ [][CNext]_vars

---------------------------------------------------------------------------
(* Properties of the codec *)

\* a value that is the empty dict
IsEmptyMap(val) == val.t = "dict" /\ val.v = <<>>

\* base64 as RFC 4648 writes it: alphabet characters in groups of four, the
\* last group filled up with one or two "="
IsBase64(s) ==
    /\ Len(s) % 4 = 0
    /\ \A i \in 1..Len(s) :
          \/ IsB64Char(s[i])
          \/ /\ s[i] = B64Pad
             /\ i >= Len(s) - 1
             /\ \A j \in i..Len(s) : s[j] = B64Pad

\* the bytes a base64 text stands for are UTF-8 of a JSON text
BytesAreJson(s) ==
    LET payload == B64Decode(s)
    IN  /\ payload.ok
        /\ Utf8Decode(payload.bytes).ok
        /\ JsonLoads(Utf8Decode(payload.bytes).chars).ok

\* the document has a START delimiter with an END delimiter after it
HasMacroBlock(text) ==
    \E i, j \in 1..Len(text) :
        /\ MatchAt(text, i, MacroBlockStart)
        /\ MatchAt(text, j, MacroBlockEnd)
        /\ j >= i + Len(MacroBlockStart)

\* C10 (as claimed): _decode_macro_map raises nothing and returns an empty map
\* for an empty string, for a string that is not base64 and for base64 whose
\* bytes are not JSON; _extract_macro_map_from_markdown returns an empty map
\* and raises nothing for a document without a macro block.
C10_CodecFailOpen ==
    /\ cpc \in {"decoded", "extracted"} =>
          /\ ~decoded.raised
          /\ (\/ encoded_text = <<>>
              \/ ~IsBase64(encoded_text)
              \/ ~BytesAreJson(encoded_text)) => IsEmptyMap(decoded.val)
    /\ (cpc = "extracted" /\ ~HasMacroBlock(document)) =>
          /\ ~extracted.raised
          /\ IsEmptyMap(extracted.val)

\* the value json.loads returns for the text json.dumps writes for a dict of
\* str to str: the same keys and strings in the same order
AsJson(map) ==
    JDict([k \in 1..Len(map) |-> <<map[k][1], JStr(map[k][2])>>])

\* C11: for every map m of placeholder strings to markup strings, the empty
\* map and maps with characters outside ASCII included,
\* _decode_macro_map(_encode_macro_map(m)) raises nothing and equals m.
C11_CodecRoundTrip ==
    (source_map.given /\ cpc \notin {"map", "input"})
        => /\ ~decoded.raised
           /\ decoded.val = AsJson(source_map.map)

C11_Witness ==
    /\ cpc = "decoded"
    /\ source_map.given
    /\ Len(source_map.map) = 2
    /\ source_map.map[1][2] = <<"U+1F600">>
    /\ source_map.map[2][2] = <<"\\","u","0","0","e","9">>
    /\ decoded.val = AsJson(source_map.map)

C11_WitnessEmpty ==
    /\ cpc = "decoded"
    /\ source_map.given
    /\ source_map.map = <<>>
    /\ encoded_text = <<"e","3","0","=">>
    /\ IsEmptyMap(decoded.val)

\* where the START delimiter and the END delimiter occur in a text
Starts(text) == {i \in 1..Len(text) : MatchAt(text, i, MacroBlockStart)}

Ends(text) == {j \in 1..Len(text) : MatchAt(text, j, MacroBlockEnd)}

\* the text without its part from index i up to index j - 1, and without the
\* one line feed at index j when there is one
Excised(text, i, j) ==
    SubSeq(text, 1, i - 1)
        \o SubSeq(text,
                  IF j <= Len(text) /\ text[j] = "\n" THEN j + 1 ELSE j,
                  Len(text))

\* C12: for a document with one macro block, extraction decodes the text
\* between the delimiters with the white space at its ends taken off (the
\* encoded map comes back as it was), and _remove_macro_block returns the
\* document without the block and without one line feed after it, when there
\* is one, every other character kept in place.
C12_BlockExtractionPrecise ==
    cpc = "removed" =>
        \A i \in Starts(document), j \in Ends(document) :
            (/\ Starts(document) = {i}
             /\ Ends(document) = {j}
             /\ j >= i + Len(MacroBlockStart))
                => /\ extracted
                        = DecodeMacroMap(
                              Strip(SubSeq(document, i + Len(MacroBlockStart),
                                           j - 1)))
                   /\ source_map.given
                        => extracted.val = AsJson(source_map.map)
                   /\ stripped = Excised(document, i, j + Len(MacroBlockEnd))

C12_Witness ==
    /\ cpc = "removed"
    /\ source_map.given
    /\ Len(source_map.map) = 1
    /\ document = BodyText \o MacroBlockStart \o encoded_text
                      \o MacroBlockEnd \o <<"\n","\n","x">>
    /\ extracted.val = AsJson(source_map.map)
    /\ stripped = BodyText \o <<"\n","x">>

\* C13 (as claimed): whatever number of texts of a document match the
\* delimiters, _remove_macro_block takes out the one block whose payload
\* _extract_macro_map_from_markdown decodes, with one line feed after it, and
\* nothing else.
C13_RemovesOnlyDecodedBlock ==
    cpc = "removed" =>
        stripped = IF SearchMacroBlock(document, 1).found
                   THEN Excised(document, SearchMacroBlock(document, 1).start,
                                SearchMacroBlock(document, 1).end)
                   ELSE document

---------------------------------------------------------------------------
(* Specification of the heading escape: _escape_markdown_heading is given  *)
(* a title.                                                                *)

\* Longest title made of the characters of HeadingChars.
MaxHeading == 3

\* a letter, a space and the four characters the escape looks for
HeadingChars == {"a", " ", "#", "\\", "\r", "\n"}

\* the title of the project's test: Title #1 \ test<LF>next
TestTitle ==
    <<"T","i","t","l","e"," ","#","1"," ","\\"," ","t","e","s","t","\n",
      "n","e","x","t">>

HeadingTexts ==
    UNION {[1..n -> HeadingChars] : n \in 0..MaxHeading} \cup {TestTitle}

HInit ==
    /\ XIdle
    /\ CIdle
    /\ SIdle
    /\ hpc = "given"
    /\ heading \in HeadingTexts
    /\ escaped = <<>>
    /\ buffer_text = <<>>
    /\ content_lines = <<>>
    /\ cleaned_text = <<>>
    /\ UIdle /\ QIdle /\ RIdle /\ IIdle /\ LIdle /\ MIdle

\* _escape_markdown_heading(heading)
Escape ==
    /\ hpc = "given"
    /\ escaped' = EscapeMarkdownHeading(heading)
    /\ hpc' = "escaped"
    /\ UNCHANGED <<heading, buffer_text, content_lines, cleaned_text, xvars,
                   cvars, svars, uvars, qvars, rvars, ivars, lvars, mvars>>

HNext == Escape

SpecHeading == HInit /\ [][HNext]_vars

---------------------------------------------------------------------------
(* Properties of the heading escape *)

\* what one character of a title becomes
EscapedChar(c) ==
    CASE c \in {"\r", "\n"} -> <<" ">>
      [] c = "\\" -> <<"\\", "\\">>
      [] c = "#" -> <<"\\", "#">>
      [] OTHER -> <<c>>

\* C19: _escape_markdown_heading writes one space for each carriage return
\* and each line feed, two backslashes for each backslash and backslash-# for
\* each #, and leaves every other character as it is; a title with none of
\* the four characters comes back unchanged, and Title #1 \ test<LF>next
\* becomes Title \#1 \\ test next.
C19_HeadingEscape ==
    hpc = "escaped" =>
        /\ escaped = Concat([i \in 1..Len(heading) |-> EscapedChar(heading[i])])
        /\ (\A i \in 1..Len(heading) :
                heading[i] \notin {"\r", "\n", "\\", "#"})
              => escaped = heading
        /\ heading = TestTitle
              => escaped = <<"T","i","t","l","e"," ","\\","#","1"," ","\\",
                             "\\"," ","t","e","s","t"," ","n","e","x","t">>

C19_Witness ==
    /\ hpc = "escaped"
    /\ heading = <<"#", "\\", "\n">>
    /\ escaped = <<"\\", "#", "\\", "\\", " ">>

C19_WitnessTest ==
    /\ hpc = "escaped"
    /\ heading = TestTitle
    /\ Len(escaped) = Len(heading) + 2

---------------------------------------------------------------------------
(* Specification of the clean-up: the text read back from the editor,      *)
(* after _remove_macro_block, is split into lines, filtered, joined and    *)
(* stripped.                                                               *)

\* Largest number of lines of an edited text.
MaxLines == 3

\* lines an edited text may have: a title, a heading without its space, a
\* comment, a comment behind a space, a comment that is only opened, one that
\* is only closed, text, nothing
LineKinds ==
    { <<"#"," ","A">>,
      <<"#","A">>,
      <<"<","!","-","-"," ","c"," ","-","-",">">>,
      <<" ","<","!","-","-"," ","c"," ","-","-",">">>,
      <<"<","!","-","-"," ","o">>,
      <<"x"," ","-","-",">">>,
      <<"x">>,
      <<>> }

LineTexts ==
    {Join(<<"\n">>, kinds) :
        kinds \in UNION {[1..n -> LineKinds] : n \in 1..MaxLines}}

LInit ==
    /\ XIdle
    /\ CIdle
    /\ SIdle
    /\ hpc = "edited"
    /\ heading = <<>>
    /\ escaped = <<>>
    /\ buffer_text \in LineTexts
    /\ content_lines = <<>>
    /\ cleaned_text = <<>>
    /\ UIdle /\ QIdle /\ RIdle /\ IIdle /\ LIdle /\ MIdle

\* lines = edited_content.split("\n"), the loop, the join and the strip
Clean ==
    /\ hpc = "edited"
    /\ content_lines' = ContentLines(SplitLines(buffer_text))
    /\ cleaned_text' = Strip(Join(<<"\n">>, content_lines'))
    /\ hpc' = "cleaned"
    /\ UNCHANGED <<heading, escaped, buffer_text, xvars, cvars, svars, uvars,
                   qvars, rvars, ivars, lvars, mvars>>

LNext == Clean

SpecLines == LInit /\ [][LNext]_vars

---------------------------------------------------------------------------
(* Properties of the clean-up *)

\* the lines that start with <!-- and hold -->
CommentLines(lines) ==
    {k \in 1..Len(lines) :
        StartsWith(lines[k], CommentOpen) /\ Contains(lines[k], CommentClose)}

\* the first line that starts with "# ", when there is one
FirstTitle(lines) ==
    {k \in 1..Len(lines) :
        /\ StartsWith(lines[k], TitleMark)
        /\ \A j \in 1..(k - 1) : ~StartsWith(lines[j], TitleMark)}

\* the lines outside a set of indexes, in their order
Without(lines, dropped) ==
    [k \in 1..(Len(lines) - Cardinality(dropped)) |->
        lines[SortedSeq((1..Len(lines)) \ dropped)[k]]]

\* C17: of the lines of the edited text, every line that starts with <!--
\* and holds --> is dropped and the first line that starts with "# " is
\* dropped, once; every later line starting with "# " and every other line is
\* kept, in the order it had; the cleaned text is these lines joined and
\* stripped.
C17_LinesFiltered ==
    hpc = "cleaned" =>
        /\ content_lines
              = Without(SplitLines(buffer_text),
                        CommentLines(SplitLines(buffer_text))
                            \cup FirstTitle(SplitLines(buffer_text)))
        /\ cleaned_text = Strip(Join(<<"\n">>, content_lines))

C17_Witness ==
    /\ hpc = "cleaned"
    /\ buffer_text = <<"#"," ","A","\n">>
                        \o <<"<","!","-","-"," ","c"," ","-","-",">","\n">>
                        \o <<"#"," ","A">>
    /\ content_lines = << <<"#"," ","A">> >>

---------------------------------------------------------------------------
(* Specification of a session: one call of edit_page_with_editor or of     *)
(* add_content_to_page against a server that other users edit too.  The    *)
(* conversion _markdown_to_html is not followed: an update body is the     *)
(* sequence of its parts, each marked md when it is the conversion of its  *)
(* text.                                                                   *)

\* Highest version number the page reaches on the server.
MaxVersion == 3

PageId == <<"7">>

\* URLs of the page: the id as the pageId query parameter, as the path
\* segment after /pages/, and as a parameter of a relative URL with a
\* fragment
PageUrls ==
    {
      <<"h","t","t","p","s",":","/","/","h","/","p","a","g","e","s","/","v",
        "i","e","w","p","a","g","e",".","a","c","t","i","o","n","?","p","a",
        "g","e","I","d","=","7">>,
      <<"h","t","t","p","s",":","/","/","h","/","s","p","a","c","e","s","/",
        "S","/","p","a","g","e","s","/","7","/","T">>,
      <<"/","x","?","a","=","1","&","p","a","g","e","I","d","=","7","#",
        "f">> }

\* a URL whose pageId parameter names no page of the server
StrangerUrls ==
    {
      <<"h","t","t","p","s",":","/","/","h","/","x","?","p","a","g","e","I",
        "d","=","a","b","c">> }

\* URLs without a page id: the empty URL; a pageId parameter without a
\* value, without its "=" and with a second "="; another parameter that ends
\* in pageId; pageId in the fragment only; a segment after /pages/ that is no
\* number; /pages as the last segment; the number as a parameter of the
\* segment
UrlsWithoutId ==
    {
      <<>>,
      <<"h","t","t","p","s",":","/","/","h","/","p","a","g","e","s","/","v",
        "i","e","w","p","a","g","e",".","a","c","t","i","o","n","?","p","a",
        "g","e","I","d","=">>,
      <<"h","t","t","p","s",":","/","/","h","/","p","a","g","e","s","/","v",
        "i","e","w","p","a","g","e",".","a","c","t","i","o","n","?","p","a",
        "g","e","I","d">>,
      <<"h","t","t","p","s",":","/","/","h","/","x","?","p","a","g","e","I",
        "d","=","=","7">>,
      <<"h","t","t","p","s",":","/","/","h","/","x","?","x","p","a","g","e",
        "I","d","=","7">>,
      <<"h","t","t","p","s",":","/","/","h","/","x","#","p","a","g","e","I",
        "d","=","7">>,
      <<"h","t","t","p","s",":","/","/","h","/","s","p","a","c","e","s","/",
        "S","/","p","a","g","e","s","/","n","o","t","a","n","i","d","/",
        "7">>,
      <<"h","t","t","p","s",":","/","/","h","/","s","p","a","c","e","s","/",
        "S","/","p","a","g","e","s">>,
      <<"h","t","t","p","s",":","/","/","h","/","p","a","g","e","s","/",";",
        "7">> }

Urls == PageUrls \cup StrangerUrls \cup UrlsWithoutId

Titles == { <<"T">>, <<"U+????">> }

MacroName == <<"a","c",":","i","m","a","g","e">>

\* storage bodies: plain text, text with the form of a comment, one macro, a
\* paragraph and a macro
Bodies ==
    { <<TextNode(<<"H","i">>, 0)>>,
      <<TextNode(<<"<","!","-","-","x","-","-",">">>, 0)>>,
      <<TagNode(MacroName, 0)>>,
      <<TagNode(<<"p">>, 0), TextNode(<<"H","i">>, 1), TagNode(MacroName, 0)>> }

\* page_data["body"]["storage"]["value"]
BodyHtml(d) ==
    LET kids == ChildrenOf(d, 0)
    IN  Concat([k \in 1..Len(kids) |-> Serialize(d, kids[k])])

\* payloads a user may leave between the delimiters: the encodings of 123 and
\* of {"a":1}, text that is not base64, bytes that are not UTF-8, UTF-8 that
\* is not JSON
EditedPayloads ==
    { <<"M","T","I","z">>,
      <<"e","y","J","h","I","j","o","x","f","Q","=","=">>,
      <<"!","!","!">>,
      <<"a","b","c","d">>,
      <<"e","w","=","=">> }

\* the buffer with its macro block replaced by one that carries payload
WithPayload(text, payload) ==
    RemoveMacroBlock(text) \o MacroBlockStart \o payload \o MacroBlockEnd
        \o <<"\n">>

\* the buffer with another title in its title line and another page id and
\* version in its comment line
HeaderChanged(text) ==
    Replace(Replace(Replace(text, TitleMark, TitleMark \o <<"Z">>),
                    <<"P","a","g","e"," ","I","D",":"," ">>,
                    <<"P","a","g","e"," ","I","D",":"," ","9">>),
            <<"V","e","r","s","i","o","n",":"," ">>,
            <<"V","e","r","s","i","o","n",":"," ","9">>)

\* texts the editor may save over a buffer: the same text, a line more, the
\* block deleted, nothing, a changed title and comment, another payload
Edits(text) ==
    {text, text \o <<"x", "\n">>, RemoveMacroBlock(text), <<>>,
     HeaderChanged(text)}
        \cup {WithPayload(text, payload) : payload \in EditedPayloads}

\* what the editor process may do to the file: leave it, remove it, save a
\* text; a save moves the modification time on (tick 1) or, within the
\* clock's resolution, leaves it (tick 0)
EditorEffects(text) ==
    {[kind |-> "untouched", text |-> text, tick |-> 0],
     [kind |-> "removed", text |-> <<>>, tick |-> 0]}
        \cup {[kind |-> "saved", text |-> new, tick |-> k] :
                 new \in Edits(text), k \in {0, 1}}

AfterEditor(file, effect) ==
    CASE effect.kind = "untouched" -> file
      [] effect.kind = "removed" -> [file EXCEPT !.exists = FALSE]
      [] effect.kind = "saved" ->
            [file EXCEPT !.text = effect.text, !.mtime = @ + effect.tick]

\* the finally clause: if os.path.exists(temp_file_path): os.unlink(...)
Cleanup(file) == [file EXCEPT !.exists = FALSE]

MutIgnoreMtime(returncode, removed, new_mtime, old_mtime) ==
    IF returncode # 0 THEN "Cancelled"
    ELSE IF removed THEN "Raised"
    ELSE "ExternallyEdited"

MutIgnoreReturncode(returncode, removed, new_mtime, old_mtime) ==
    IF removed THEN "Raised"
    ELSE IF new_mtime = old_mtime THEN "Cancelled"
    ELSE "ExternallyEdited"

\* where the call stands once the editor process has ended: return None on a
\* non-zero return code, os.path.getmtime raises on a file that is gone,
\* return None on an unchanged modification time, else the text is read
EditorOutcome(returncode, removed, new_mtime, old_mtime) ==
    IF returncode # 0 THEN "Cancelled"
    ELSE IF removed THEN "Raised"
    ELSE IF new_mtime = old_mtime THEN "Cancelled"
    ELSE "ExternallyEdited"

MutPlusTwo(number) == number + 2

\* page_data["version"]["number"] + 1
NextVersion(number) == number + 1

MutNoConflictCheck(status) ==
    IF status >= 400 THEN "HTTPError" ELSE ""

\* what the code raises on the response of the PUT: the version conflict
\* RuntimeError on 409, raise_for_status on any other 4xx or 5xx
PutOutcome(status) ==
    IF status = 409 THEN "RuntimeError: version conflict"
    ELSE IF status >= 400 THEN "HTTPError"
    ELSE ""

\* the statuses the server may answer an update with: 200 for the successor
\* of its version, 409 for any other version, 500 at any time, and 304, a
\* status of the 3xx class that the session hands to the caller as it is
ServerStatuses(request, current) ==
    {304, 500} \cup (IF request.version = current + 1 THEN {200} ELSE {409})

\* the statuses the server may answer the GET request with
GetStatuses == {200, 304, 404}

\* response.json(): a 200 response carries the page, an unfollowed 3xx
\* response may carry JSON or not
JsonBodies(status) == IF status = 200 THEN {TRUE} ELSE BOOLEAN

\* what get_page_content raises on the response: raise_for_status on a 4xx
\* or 5xx, and what response.json() raises on a body that is not JSON
GetOutcome(status, json) ==
    IF status >= 400 THEN "HTTPError"
    ELSE IF ~json THEN "JSONDecodeError"
    ELSE ""

SInit ==
    /\ XIdle
    /\ CIdle
    /\ HIdle
    /\ op \in {"edit", "add", "download", "read"}
    /\ page_url \in Urls
    /\ state = "Idle"
    /\ encoding \in Encodings
    /\ server_version = 1
    /\ SFresh

\* get_page_by_url with a page id: the GET request of get_page_content is
\* sent and answered with the page as the server has it
Fetch ==
    /\ state = "Idle"
    /\ ~NotPageId(ExtractPageIdFromUrl(page_url))
    /\ ExtractPageIdFromUrl(page_url).id = PageId
    /\ gets' = gets + 1
    /\ \E status \in GetStatuses :
          \E json \in JsonBodies(status) :
             /\ GetOutcome(status, json) = ""
             /\ fetch_status' = status
    /\ \E title \in Titles, body \in Bodies :
          page_data' = [id |-> ExtractPageIdFromUrl(page_url).id,
                        title |-> title, version |-> server_version,
                        body |-> body]
    /\ state' = "Fetched"
    /\ UNCHANGED <<op, page_url, announced, output, encoding, server_version,
                   temp_file, original_mtime, editor, edited_content,
                   edited_map, cleaned_content, puts, response_status, result,
                   error, xvars, cvars, hvars>>

\* get_page_by_url raises: ValueError when the URL gives no page id, and
\* then no request is sent; raise_for_status when the status of the response
\* to the GET request is 400 or above, as for a page the server does not
\* have; response.json() when the body is not JSON
FetchFail ==
    /\ state = "Idle"
    /\ IF NotPageId(ExtractPageIdFromUrl(page_url))
       THEN /\ error' = "ValueError"
            /\ gets' = gets
            /\ fetch_status' = fetch_status
       ELSE \E status \in GetStatuses :
               \E json \in JsonBodies(status) :
                  /\ GetOutcome(status, json) # ""
                  /\ error' = GetOutcome(status, json)
                  /\ gets' = gets + 1
                  /\ fetch_status' = status
    /\ state' = "Raised"
    /\ UNCHANGED <<op, page_url, announced, output, encoding, server_version, page_data,
                   temp_file, original_mtime, editor, edited_content,
                   edited_map, cleaned_content, puts, response_status, result,
                   xvars, cvars, hvars>>

\* the with block: the file is created, and a write that cannot be encoded
\* raises out of the block, which closes the file and so flushes the writes
\* before it
WriteBuffer(writes, failing) ==
    IF failing = 0
    THEN /\ temp_file' = [created |-> TRUE, exists |-> TRUE, mtime |-> 1,
                          text |-> Concat(writes)]
         /\ state' = "Rendered"
         /\ error' = error
    ELSE /\ temp_file' = [created |-> TRUE, exists |-> TRUE, mtime |-> 1,
                          text |-> Concat(SubSeq(writes, 1, failing - 1))]
         /\ state' = "Raised"
         /\ error' = "UnicodeEncodeError"

WriteAll(writes) == WriteBuffer(writes, FailingWrite(writes, encoding))

\* what _html_to_markdown_with_macros returns goes into the buffer
RenderBuffer(current_markdown, map) ==
    /\ markdown' = current_markdown
    /\ macro_map' = map
    /\ WriteAll(BufferWrites(page_data, current_markdown, map))

RenderExtracted(out) ==
    /\ soup' = out.soup
    /\ RenderBuffer(RenderMarkdown(out.soup), out.macro_map)

\* _html_to_markdown_with_macros on the fetched body, then the with block
Render ==
    /\ op = "edit"
    /\ state = "Fetched"
    /\ doc0' = page_data.body
    /\ macro_tags' = CollectMacroTags(page_data.body, 1)
    /\ RenderExtracted(ReplaceLoop(page_data.body,
                                   CollectMacroTags(page_data.body, 1),
                                   1, 1, <<>>))
    /\ UNCHANGED <<op, page_url, gets, fetch_status, announced,
                   output, encoding, server_version,
                   page_data, original_mtime, editor, edited_content,
                   edited_map, cleaned_content, puts, response_status, result,
                   xpc, restored, cvars, hvars>>

\* the try block up to the read of the edited file: the editor is started
\* (subprocess.run raises when there is no such program), ends with a return
\* code and has left, removed or saved the file
RunEditor ==
    /\ op = "edit"
    /\ state = "Rendered"
    /\ original_mtime' = temp_file.mtime
    /\ \/ /\ editor' = editor
          /\ state' = "Raised"
          /\ error' = "FileNotFoundError"
          /\ temp_file' = Cleanup(temp_file)
          /\ UNCHANGED <<edited_content, result>>
       \/ \E returncode \in {0, 1}, effect \in EditorEffects(temp_file.text) :
             LET file == AfterEditor(temp_file, effect)
                 outcome == EditorOutcome(returncode, ~file.exists, file.mtime,
                                       temp_file.mtime)
             IN  /\ editor' = [ran |-> TRUE, returncode |-> returncode,
                               removed |-> ~file.exists]
                 /\ state' = outcome
                 /\ result' = IF outcome = "Cancelled" THEN "None" ELSE result
                 /\ error' = IF outcome = "Raised" THEN "FileNotFoundError"
                             ELSE error
                 /\ edited_content' = IF outcome = "ExternallyEdited"
                                      THEN file.text ELSE edited_content
                 /\ temp_file' = IF outcome = "ExternallyEdited" THEN file
                                 ELSE Cleanup(file)
    /\ UNCHANGED <<op, page_url, gets, fetch_status, announced,
                   output, encoding, server_version,
                   page_data, edited_map, cleaned_content, puts,
                   response_status, xvars, cvars, hvars>>

\* the end of the restoration loop: an exception leaves through the finally
\* clause
RestoreDone(done) ==
    IF done.raised # ""
    THEN /\ state' = "Raised"
         /\ error' = done.raised
         /\ temp_file' = Cleanup(temp_file)
         /\ UNCHANGED cleaned_content
    ELSE /\ state' = "Restored"
         /\ cleaned_content' = done.text
         /\ UNCHANGED <<error, temp_file>>

RestoreFound(found, cleaned) ==
    IF found.raised
    THEN /\ state' = "Raised"
         /\ error' = "Exception"
         /\ temp_file' = Cleanup(temp_file)
         /\ UNCHANGED <<edited_map, cleaned_content>>
    ELSE /\ edited_map' = found.val
         /\ RestoreDone(RestoreDecoded(cleaned, found.val))

\* from _extract_macro_map_from_markdown to the end of the restoration loop
RestoreContent ==
    /\ op = "edit"
    /\ state = "ExternallyEdited"
    /\ RestoreFound(ExtractMacroMapFromMarkdown(edited_content),
                    CleanedContent(edited_content))
    /\ UNCHANGED <<op, page_url, gets, fetch_status, announced,
                   output, encoding, server_version,
                   page_data, original_mtime, editor, edited_content, puts,
                   response_status, result, xvars, cvars, hvars>>

\* session.put(url, json=update_data) and what the code does with the response
SendPut(request) ==
    \E status \in ServerStatuses(request, server_version),
       json \in BOOLEAN :
        /\ PutOutcome(status) = "" => json \in JsonBodies(status)
        /\ PutOutcome(status) # "" => json
        /\ puts' = Append(puts, request)
        /\ response_status' = status
        /\ server_version' = IF status = 200 THEN request.version
                              ELSE server_version
        /\ IF PutOutcome(status) # ""
           THEN /\ state' = "Raised"
                /\ error' = PutOutcome(status)
                /\ result' = result
           ELSE IF ~json
           THEN /\ state' = "Raised"
                /\ error' = "JSONDecodeError"
                /\ result' = result
           ELSE /\ state' = "Uploaded"
                /\ result' = "response"
                /\ error' = error

\* the title a buffer shows in its first title line
TitleOfBuffer(edited) ==
    IF \E k \in 1..Len(SplitLines(edited)) :
          StartsWith(SplitLines(edited)[k], TitleMark)
    THEN SubSeq(SplitLines(edited)[Min({k \in 1..Len(SplitLines(edited)) :
                                          StartsWith(SplitLines(edited)[k],
                                                     TitleMark)})],
                3,
                Len(SplitLines(edited)[Min({k \in 1..Len(SplitLines(edited)) :
                                              StartsWith(SplitLines(edited)[k],
                                                         TitleMark)})]))
    ELSE <<>>

MutTitleParsedBack ==
    /\ op = "edit"
    /\ state = "Restored"
    /\ SendPut([id |-> page_data.id,
                version |-> NextVersion(page_data.version),
                title |-> TitleOfBuffer(edited_content),
                body |-> <<[md |-> TRUE, text |-> cleaned_content]>>])
    /\ temp_file' = Cleanup(temp_file)
    /\ announced' = (PutOutcome(response_status') = "")
    /\ UNCHANGED <<op, page_url, gets, fetch_status, output, encoding, page_data,
                   original_mtime, editor, edited_content, edited_map,
                   cleaned_content, xvars, cvars, hvars>>

\* the update of edit_page_with_editor, and its finally clause
UploadEdit ==
    /\ op = "edit"
    /\ state = "Restored"
    /\ SendPut([id |-> page_data.id,
                version |-> NextVersion(page_data.version),
                title |-> page_data.title,
                body |-> <<[md |-> TRUE, text |-> cleaned_content]>>])
    /\ temp_file' = Cleanup(temp_file)
    /\ announced' = (PutOutcome(response_status') = "")
    /\ UNCHANGED <<op, page_url, gets, fetch_status, output, encoding, page_data,
                   original_mtime, editor, edited_content, edited_map,
                   cleaned_content, xvars, cvars, hvars>>

\* add_content_to_page after the fetch
UploadAdd ==
    /\ op = "add"
    /\ state = "Fetched"
    /\ \E content_type \in {"markdown", "html"}, append \in BOOLEAN :
          LET html_content == [md |-> content_type = "markdown",
                               text |-> <<"x">>]
              current_content == [md |-> FALSE,
                                  text |-> BodyHtml(page_data.body)]
              line == [md |-> FALSE, text |-> <<"\n">>]
          IN  SendPut([id |-> page_data.id,
                       version |-> NextVersion(page_data.version),
                       title |-> page_data.title,
                       body |-> IF append
                                THEN <<current_content, line, html_content>>
                                ELSE <<html_content, line, current_content>>])
    /\ UNCHANGED <<op, page_url, gets, fetch_status, announced,
                   output, encoding, page_data, temp_file,
                   original_mtime, editor, edited_content, edited_map,
                   cleaned_content, xvars, cvars, hvars>>

\* download_as_markdown after the fetch: the heading is the escaped title,
\* the text is written to output_file when one is given
Download ==
    /\ op = "download"
    /\ state = "Fetched"
    /\ \E output_file \in BOOLEAN :
          output' = [title |-> EscapeMarkdownHeading(page_data.title),
                     id |-> page_data.id,
                     version |-> page_data.version,
                     markdown |-> RenderMarkdown(page_data.body),
                     saved |-> output_file]
    /\ result' = "full_markdown"
    /\ state' = "Returned"
    /\ UNCHANGED <<op, page_url, gets, fetch_status, announced,
                   encoding, server_version, page_data,
                   temp_file, original_mtime, editor, edited_content,
                   edited_map, cleaned_content, puts, response_status, error,
                   xvars, cvars, hvars>>

\* read_page_content after the fetch
Read ==
    /\ op = "read"
    /\ state = "Fetched"
    /\ output' = [title |-> page_data.title,
                  id |-> page_data.id,
                  version |-> page_data.version,
                  markdown |-> RenderMarkdown(page_data.body),
                  saved |-> FALSE]
    /\ result' = "dict"
    /\ state' = "Returned"
    /\ UNCHANGED <<op, page_url, gets, fetch_status, announced,
                   encoding, server_version, page_data,
                   temp_file, original_mtime, editor, edited_content,
                   edited_map, cleaned_content, puts, response_status, error,
                   xvars, cvars, hvars>>

\* another user saves the page while the call is under way
ConcurrentEdit ==
    /\ state \in {"Idle", "Fetched", "Rendered", "ExternallyEdited",
                  "Restored"}
    /\ server_version < MaxVersion
    /\ server_version' = server_version + 1
    /\ UNCHANGED <<op, page_url, gets, fetch_status, announced,
                   output, state, encoding, page_data,
                   temp_file, original_mtime, editor, edited_content,
                   edited_map, cleaned_content, puts, response_status, result,
                   error, xvars, cvars, hvars>>

Next ==
    \/ Fetch
    \/ FetchFail
    \/ Render
    \/ RunEditor
    \/ RestoreContent
    \/ UploadEdit
    \/ UploadAdd
    \/ Download
    \/ Read
    \/ ConcurrentEdit

Spec == SInit /\ [][Next]_vars

---------------------------------------------------------------------------
(* Properties of a session *)

Ended == {"Uploaded", "Cancelled", "Raised"}

\* C4 (as claimed): once the temporary file of an edit session has been
\* created, it no longer exists when edit_page_with_editor has returned or
\* raised, whichever way the call ended, an exception while the buffer is
\* written included.
C4_TempFileRemoved ==
    (op = "edit" /\ state \in Ended /\ temp_file.created) => ~temp_file.exists

\* C5: when the editor has ended with a non-zero return code, or the file's
\* modification time after the editor is the one recorded before it, the edit
\* session is Cancelled, has returned None, and no update request has been or
\* will be sent.
C5_CancelSendsNothing ==
    (/\ op = "edit"
     /\ editor.ran
     /\ \/ editor.returncode # 0
        \/ ~editor.removed /\ temp_file.mtime = original_mtime)
        => /\ state = "Cancelled"
           /\ result = "None"
           /\ error = ""
           /\ puts = <<>>
           /\ response_status = 0

C5_Witness ==
    /\ op = "edit"
    /\ state = "Cancelled"
    /\ editor.ran
    /\ editor.returncode = 0
    /\ temp_file.mtime = original_mtime
    /\ puts = <<>>

\* C6: a call sends at most one update request, and when the response is 409
\* the call has raised the version conflict RuntimeError, has returned nothing
\* and that one request stays the only one.
C6_ConflictNotRetried ==
    /\ Len(puts) <= 1
    /\ response_status = 409 =>
          /\ state = "Raised"
          /\ error = "RuntimeError: version conflict"
          /\ result = ""
          /\ Len(puts) = 1

C6_Witness ==
    /\ op = "edit"
    /\ response_status = 409
    /\ state = "Raised"
    /\ Len(puts) = 1

\* C7: page_data holds the version the server had when the page was fetched
\* and does not change afterwards, and every update request carries that
\* version plus one, whatever the server's version has become meanwhile.
C7_VersionIsFetchedPlusOne ==
    /\ [](\A k \in 1..Len(puts) : puts[k].version = page_data.version + 1)
    /\ [][/\ (state = "Idle" /\ state' = "Fetched") =>
                page_data'.version = server_version
          /\ state # "Idle" => page_data' = page_data]_vars

C7_Witness ==
    /\ op = "add"
    /\ Len(puts) = 1
    /\ response_status = 409
    /\ server_version > page_data.version
    /\ puts[1].version = page_data.version + 1

\* the steps of an edit session that does not raise
StateOrder ==
    { <<"Idle", "Fetched">>, <<"Fetched", "Rendered">>,
      <<"Rendered", "ExternallyEdited">>, <<"Rendered", "Cancelled">>,
      <<"ExternallyEdited", "Restored">>, <<"Restored", "Uploaded">> }

\* the steps by which a session raises
Raising ==
    { <<from, "Raised">> :
         from \in {"Idle", "Fetched", "Rendered", "ExternallyEdited",
                   "Restored"} }

\* C8: an edit session changes its state only along Fetched -> Rendered ->
\* Externally-Edited -> Restored -> Uploaded, to Cancelled after the editor,
\* or by raising; an update request is sent only from Restored, after the
\* editor has ended with return code 0 and the file was seen modified; the
\* call has returned exactly when the state is Cancelled (None) or Uploaded
\* (the response); and nothing changes once the session has ended.
C8_EditStateMachine ==
    /\ [](op = "edit" =>
            /\ result = "None" <=> state = "Cancelled"
            /\ result = "response" <=> state = "Uploaded"
            /\ error # "" <=> state = "Raised")
    /\ [][op = "edit" =>
            /\ state' # state => <<state, state'>> \in StateOrder \cup Raising
            /\ puts' # puts =>
                  /\ state = "Restored"
                  /\ editor.ran
                  /\ editor.returncode = 0
                  /\ temp_file.mtime # original_mtime
                  /\ state' \in {"Uploaded", "Raised"}
            /\ state \in Ended => UNCHANGED svars]_vars

C8_Witness ==
    /\ op = "edit"
    /\ state = "Uploaded"
    /\ result = "response"
    /\ editor.returncode = 0
    /\ Len(puts) = 1

\* the edited text carries a payload that is the encoding of a dict of strings
PayloadIsMap(text) ==
    /\ SearchMacroBlock(text, 1).found
    /\ DecodeAttempt(Strip(SearchMacroBlock(text, 1).group)).ok
    /\ DecodeAttempt(Strip(SearchMacroBlock(text, 1).group)).val.t = "dict"
    /\ \A k \in 1..Len(DecodeAttempt(Strip(SearchMacroBlock(text, 1).group)).val.v) :
          DecodeAttempt(Strip(SearchMacroBlock(text, 1).group)).val.v[k][2].t = "str"

\* C9 (as claimed): whatever the edited buffer carries between the
\* delimiters, the restore step raises nothing; and when the payload is not
\* the encoding of a map, the session goes on with an empty map: the text
\* handed on is the cleaned text of the buffer.
C9_DecodeFailureIsSilent ==
    op = "edit" =>
        /\ error \notin {"AttributeError", "TypeError", "Exception"}
        /\ (state \in {"Restored", "Uploaded"} /\ ~PayloadIsMap(edited_content))
              => /\ IsEmptyMap(edited_map)
                 /\ cleaned_content = CleanedContent(edited_content)

\* the title line, the two comment lines and the body of the buffer
BufferHead(page, body) ==
    TitleMark \o page.title \o <<"\n", "\n">> \o EditHint
        \o PageInfo(page.id, page.version) \o body

\* the block of text is its last element: one START, one END after it, the
\* head and a blank line before it, one line feed after it
BlockIsLast(text, head) ==
    /\ Cardinality(Starts(text)) = 1
    /\ Cardinality(Ends(text)) = 1
    /\ \A i \in Starts(text), j \in Ends(text) :
          /\ i + Len(MacroBlockStart) <= j
          /\ SubSeq(text, 1, i - 1) = head \o <<"\n", "\n">>
          /\ SubSeq(text, j + Len(MacroBlockEnd), Len(text)) = <<"\n">>

C16_WitnessNoBlock ==
    /\ state = "Rendered"
    /\ macro_map = <<>>
    /\ markdown = <<"H","i">>
    /\ ~HasMacroBlock(temp_file.text)

\* C18: the title line and the comment lines of the buffer are not read
\* back: every update request of an edit session goes to the id of the
\* fetched page and carries the fetched title and the fetched version plus
\* one, whatever the saved buffer shows in those lines, and its body is the
\* cleaned text, which holds neither of them.
C18_HeaderNotParsedBack ==
    op = "edit" =>
        \A k \in 1..Len(puts) :
            /\ puts[k].id = page_data.id
            /\ page_data.id = ExtractPageIdFromUrl(page_url).id
            /\ puts[k].title = page_data.title
            /\ page_data.title \in Titles
            /\ puts[k].version = page_data.version + 1
            /\ puts[k].body = <<[md |-> TRUE, text |-> cleaned_content]>>
            /\ ~Contains(cleaned_content, <<"P","a","g","e"," ","I","D",":">>)

C18_Witness ==
    /\ op = "edit"
    /\ state = "Uploaded"
    /\ edited_content = HeaderChanged(BufferText(page_data, markdown, macro_map))
    /\ TitleOfBuffer(edited_content) # page_data.title
    /\ Len(puts) = 1
    /\ puts[1].title = page_data.title
    /\ puts[1].id = PageId
    /\ puts[1].version = page_data.version + 1

\* C20: for a URL without a page id (the empty URL, no value for pageId in
\* the query, no number in the segment after /pages/) every operation that
\* takes a page URL raises ValueError out of get_page_by_url, and no request
\* has been sent; a ValueError is raised before any request, and a request
\* is sent only for a URL with a page id.
C20_NoIdNoRequest ==
    /\ (state # "Idle" /\ page_url \in UrlsWithoutId)
          => /\ state = "Raised"
             /\ error = "ValueError"
             /\ gets = 0
             /\ puts = <<>>
             /\ result = ""
             /\ page_data = NoPage
    /\ error = "ValueError" => (gets = 0 /\ puts = <<>>)
    /\ gets > 0 => page_url \notin UrlsWithoutId

C20_Witness ==
    /\ op = "download"
    /\ state = "Raised"
    /\ error = "ValueError"
    /\ page_url = <<"h","t","t","p","s",":","/","/","h","/","s","p","a","c","e","s","/","S","/","p","a","g","e","s","/","n","o","t","a","n","i","d","/","7">>
    /\ gets = 0

C20_WitnessEdit ==
    /\ op = "edit"
    /\ state = "Raised"
    /\ error = "ValueError"
    /\ page_url = <<"h","t","t","p","s",":","/","/","h","/","p","a","g","e","s","/","v","i","e","w","p","a","g","e",".","a","c","t","i","o","n","?","p","a","g","e","I","d","=">>
    /\ gets = 0
    /\ temp_file = NoFile

\* the statuses of success
SuccessStatuses == 200..299

\* a call that has ended in an error and has reported no success
EndedInError ==
    /\ state = "Raised"
    /\ error # ""
    /\ result = ""
    /\ output = NoOutput
    /\ ~announced

\* C22 (as claimed): when the response to the GET request of the fetch or to
\* the PUT request of an update has a status outside 200..299, other than
\* the 409 of an update, the call has raised an error, has returned nothing
\* and has reported no success, and the request was sent once: a failed
\* fetch is followed by no update request.
C22_NonSuccessRaises ==
    /\ gets <= 1
    /\ Len(puts) <= 1
    /\ fetch_status \notin {0} \cup SuccessStatuses
          => (EndedInError /\ gets = 1 /\ puts = <<>>)
    /\ response_status \notin {0, 409} \cup SuccessStatuses
          => (EndedInError /\ Len(puts) = 1)

\* C22, for the statuses of the 4xx and 5xx classes: the same, when the
\* status of the response is 400 or above.
C22_ErrorStatusRaises ==
    /\ gets <= 1
    /\ Len(puts) <= 1
    /\ fetch_status >= 400
          => (EndedInError /\ error = "HTTPError" /\ gets = 1 /\ puts = <<>>)
    /\ (response_status >= 400 /\ response_status # 409)
          => (EndedInError /\ error = "HTTPError" /\ Len(puts) = 1)

\* the editor has saved the buffer as it was written, and the text has been
\* cleaned and restored
SavedUnchanged ==
    /\ op = "edit"
    /\ state \in {"Restored", "Uploaded"}
    /\ edited_content = BufferText(page_data, markdown, macro_map)

\* C29 (as claimed): when the editor has saved the buffer with its text
\* unchanged, the text handed to the conversion to HTML is the rendered
\* Markdown of the body with every placeholder replaced by the markup of its
\* macro, whatever the title and the body of the page: nothing of the title
\* line or the comment lines is in it and no line of the body is missing.
C29_UnchangedBufferKeepsBody ==
    SavedUnchanged =>
        /\ edited_map = AsJson(macro_map)
        /\ cleaned_content = RestoreLoop(markdown, macro_map, 1)

\* C29, for a body without a line that has the form of a comment: the same,
\* when no line of the rendered Markdown starts with "<!--" and holds "-->".
C29_WithoutCommentLines ==
    (/\ SavedUnchanged
     /\ \A k \in 1..Len(SplitLines(markdown)) :
            ~IsCommentLine(SplitLines(markdown)[k]))
        => /\ edited_map = AsJson(macro_map)
           /\ cleaned_content = RestoreLoop(markdown, macro_map, 1)

C29_WitnessWithoutCommentLines ==
    /\ SavedUnchanged
    /\ state = "Uploaded"
    /\ markdown = <<"H","i","\n","\n">> \o Placeholder(1)
    /\ cleaned_content = <<"H","i","\n","\n">> \o Serialize(page_data.body, 3)

---------------------------------------------------------------------------
(* Specification of the page id: _extract_page_id_from_url is given a URL. *)

\* Largest number of segments of a path.
MaxSegments == 3

\* Largest number of parameters of a query.
MaxParams == 2

UrlHeads == {<<>>, <<"h","t","t","p","s",":","/","/","h">>}

PathSegments ==
    {PagesSegment, <<"7">>, <<"1", "2">>, <<"x">>}

QueryParams ==
    { <<"p","a","g","e","I","d","=","7">>,
      <<"p","a","g","e","I","d","=">>,
      <<"p","a","g","e","I","d","=","1","=","2">>,
      <<"x","p","a","g","e","I","d","=","3">>,
      <<"a","=","1">> }

UrlFragments == {<<>>, <<"#","p","a","g","e","I","d","=","9">>}

\* the URLs of the project's tests
TestUrls ==
    { <<"h","t","t","p","s",":","/","/","e","x","a","m","p","l","e",".","c","o","m","/","p","a","g","e","s","/","v","i","e","w","p","a","g","e",".","a","c","t","i","o","n","?","p","a","g","e","I","d","=","1","2","3","4","5","6">>,
      <<"h","t","t","p","s",":","/","/","e","x","a","m","p","l","e",".","c","o","m","/","s","p","a","c","e","s","/","S","P","A","C","E","/","p","a","g","e","s","/","1","2","3","4","5","6","/","P","a","g","e","+","T","i","t","l","e">>,
      <<"h","t","t","p","s",":","/","/","e","x","a","m","p","l","e",".","c","o","m","/","s","p","a","c","e","s","/","S","P","A","C","E","/","p","a","g","e","s","/","n","o","t","a","n","i","d","/","1","2","3","4","5","6">> }

\* a URL of a head, segments, parameters and a fragment
UrlOf(head, segments, params, fragment) ==
    head \o Concat([k \in 1..Len(segments) |-> <<"/">> \o segments[k]])
         \o (IF params = <<>> THEN <<>> ELSE <<"?">> \o Join(<<"&">>, params))
         \o fragment

UrlTexts ==
    {UrlOf(head, segments, params, fragment) :
        head \in UrlHeads,
        segments \in UNION {[1..n -> PathSegments] : n \in 0..MaxSegments},
        params \in UNION {[1..n -> QueryParams] : n \in 0..MaxParams},
        fragment \in UrlFragments}
      \cup TestUrls

UInit ==
    /\ XIdle
    /\ CIdle
    /\ SIdle
    /\ HeadIdle /\ QIdle /\ RIdle /\ IIdle /\ LIdle /\ MIdle
    /\ hpc = "url"
    /\ url_text \in UrlTexts
    /\ url_id = NoPageId

\* _extract_page_id_from_url(url_text)
ExtractId ==
    /\ hpc = "url"
    /\ url_id' = ExtractPageIdFromUrl(url_text)
    /\ hpc' = "extracted"
    /\ UNCHANGED <<url_text, xvars, cvars, svars, headvars, qvars, rvars,
                   ivars, lvars, mvars>>

UNext == ExtractId

SpecUrl == UInit /\ [][UNext]_vars

---------------------------------------------------------------------------
(* Properties of the page id *)

\* the parameters of a query whose name is pageId
PageIdParams(params) ==
    {k \in 1..Len(params) : StartsWith(params[k], PageIdParam)}

\* the value of a parameter pageId=value
ParamValue(param) == SubSeq(param, Len(PageIdParam) + 1, Len(param))

\* the segment right after the first segment pages
AfterPages(parts) ==
    parts[Min({i \in 1..(Len(parts) - 1) : parts[i] = PagesSegment}) + 1]

\* the page id of a URL with this query and this path
PageIdOf(params, parts) ==
    IF PageIdParams(params) # {}
    THEN [found |-> TRUE, id |-> ParamValue(params[Min(PageIdParams(params))])]
    ELSE IF /\ \E i \in 1..(Len(parts) - 1) : parts[i] = PagesSegment
            /\ IsDigitStr(AfterPages(parts))
         THEN [found |-> TRUE, id |-> AfterPages(parts)]
         ELSE NoPageId

\* C21: _extract_page_id_from_url returns the value of the query parameter
\* pageId when the query has one, otherwise the path segment right after the
\* segment pages when it is made of digits only, and None in every other
\* case; a number elsewhere in the path is not taken.
C21_PageIdFromUrl ==
    hpc = "extracted" =>
        url_id = IF url_text = <<>> THEN NoPageId
                 ELSE PageIdOf(SplitOn(UrlParse(url_text).query, "&"),
                               SplitOn(UrlParse(url_text).path, "/"))

\* apart from a value that holds "=", the page id is the one C21 describes
C21_PageIdWithoutEquals ==
    (hpc = "extracted" /\ ~Contains(url_text, <<"=","1","=","2">>)) =>
        url_id = IF url_text = <<>> THEN NoPageId
                 ELSE PageIdOf(SplitOn(UrlParse(url_text).query, "&"),
                               SplitOn(UrlParse(url_text).path, "/"))

---------------------------------------------------------------------------
(* Specification of the CQL builders: each is given a text.                *)

\* Longest query made of the characters of QueryChars.
MaxQuery == 3

\* a letter, a space, the quote and the backslash
QueryChars == {"a", " ", "\"", "\\"}

\* the texts of the project's tests, and type=page in other spellings
TestQueries ==
    { <<"f","o","o"," ","\"","b","a","r","\"">>,
      <<"s","p","a","c","e"," ","="," ","T","I","K">>,
      <<"t","y","p","e","=","p","a","g","e"," ","A","N","D"," ","s","p","a","c","e"," ","="," ","T","I","K">>,
      <<"T","Y","P","E","=","P","A","G","E">>,
      <<"a"," ","A","N","D"," ","T","y","p","e","=","P","a","g","e">>,
      <<"t","y","p","e"," ","="," ","p","a","g","e">>,
      <<"t","y","p","e","=","p","a","g">> }

QueryTexts ==
    UNION {[1..n -> QueryChars] : n \in 0..MaxQuery} \cup TestQueries

QInit ==
    /\ XIdle
    /\ CIdle
    /\ SIdle
    /\ HeadIdle /\ UIdle /\ RIdle /\ IIdle /\ LIdle /\ MIdle
    /\ hpc = "query"
    /\ query \in QueryTexts
    /\ text_cql = <<>>
    /\ ensured = <<>>
    /\ ensured_twice = <<>>

\* _build_text_search_cql(query)
BuildCql ==
    /\ hpc = "query"
    /\ text_cql' = BuildTextSearchCql(query)
    /\ hpc' = "built"
    /\ UNCHANGED <<query, ensured, ensured_twice, xvars, cvars, svars,
                   headvars, uvars, rvars, ivars, lvars, mvars>>

\* _ensure_page_cql(query)
EnsureCql ==
    /\ hpc = "query"
    /\ ensured' = EnsurePageCql(query)
    /\ hpc' = "ensured"
    /\ UNCHANGED <<query, text_cql, ensured_twice, xvars, cvars, svars,
                   headvars, uvars, rvars, ivars, lvars, mvars>>

\* _ensure_page_cql of what _ensure_page_cql returned
EnsureAgain ==
    /\ hpc = "ensured"
    /\ ensured_twice' = EnsurePageCql(ensured)
    /\ hpc' = "twice"
    /\ UNCHANGED <<query, text_cql, ensured, xvars, cvars, svars, headvars,
                   uvars, rvars, ivars, lvars, mvars>>

QNext == BuildCql \/ EnsureCql \/ EnsureAgain

SpecCql == QInit /\ [][QNext]_vars

---------------------------------------------------------------------------
(* Properties of the CQL builders *)

\* a quote of a CQL text is escaped when an odd number of backslashes
\* stands right before it
EscapedAt(text, i) ==
    (i - 1 - Max({j \in 0..(i - 1) : j = 0 \/ text[j] # "\\"})) % 2 = 1

\* the quote that closes the literal opened right before start, 0: none
ClosingQuote(text, start) ==
    Min({i \in start..Len(text) : text[i] = "\"" /\ ~EscapedAt(text, i)}
            \cup {Len(text) + 1}) % (Len(text) + 1)

\* C27: _build_text_search_cql returns type=page AND text~"<q>" order by
\* lastmodified desc, where <q> is the query with a backslash before each
\* double quote, and the literal that opens after text~ is closed by the
\* quote the builder wrote after <q>, not before and not later.
C27_TextSearchCql ==
    hpc = "built" =>
        /\ text_cql = CqlHead
                        \o Concat([k \in 1..Len(query) |->
                                      IF query[k] = "\"" THEN <<"\\", "\"">>
                                      ELSE <<query[k]>>])
                        \o CqlTail
        /\ ClosingQuote(text_cql, Len(CqlHead) + 1)
              = Len(text_cql) - Len(CqlTail) + 1

\* the form of the text _build_text_search_cql returns
C27_FormOfCql ==
    hpc = "built" =>
        text_cql = CqlHead
                     \o Concat([k \in 1..Len(query) |->
                                   IF query[k] = "\"" THEN <<"\\", "\"">>
                                   ELSE <<query[k]>>])
                     \o CqlTail

\* C28: _ensure_page_cql returns its argument when the argument holds
\* type=page in any case of letters, and type=page AND (<argument>)
\* otherwise; given its own result it returns that result.
C28_EnsurePageCql ==
    /\ hpc \in {"ensured", "twice"} =>
          ensured = IF \E i \in 1..Len(query) :
                          /\ i + Len(TypePage) - 1 <= Len(query)
                          /\ \A k \in 1..Len(TypePage) :
                                 LowerChar(query[i + k - 1]) = TypePage[k]
                    THEN query
                    ELSE <<"t","y","p","e","=","p","a","g","e"," ","A","N","D"," ","(">> \o query \o <<")">>
    /\ hpc = "twice" => ensured_twice = ensured

C28_Witness ==
    /\ hpc = "twice"
    /\ query = <<"s","p","a","c","e"," ","="," ","T","I","K">>
    /\ ensured = <<"t","y","p","e","=","p","a","g","e"," ","A","N","D"," ","(","s","p","a","c","e"," ","="," ","T","I","K",")">>
    /\ ensured_twice = ensured

C28_WitnessUpper ==
    /\ hpc = "twice"
    /\ query = <<"T","Y","P","E","=","P","A","G","E">>
    /\ ensured_twice = query

---------------------------------------------------------------------------
(* Specification of the renderer: _build_rich_renderables after            *)
(* lines = markdown_content.splitlines(), one action for each way through  *)
(* the body of its loop.                                                   *)

\* Largest number of lines of a rendered text.
MaxRendered == 4

\* a header of two columns, one of one column, separators of two columns
\* (plain, with colons, with too few dashes) and of one column, a row of
\* three cells, text, a blank line, headings
RenderedLines ==
    { <<"a","|","b">>,
      <<"|"," ","a"," ","|">>,
      <<"-","-","-","|","-","-","-">>,
      <<"|"," ",":","-","-","-"," ","|"," ","-","-","-",":"," ","|">>,
      <<"-","-","|","-","-","-">>,
      <<"|"," ","-","-","-"," ","|">>,
      <<"1","|","2","|","3">>,
      <<"x">>,
      <<>>,
      <<"#"," ","H">>,
      <<"#","#","#"," ","H">> }

RInit ==
    /\ XIdle
    /\ CIdle
    /\ SIdle
    /\ HeadIdle /\ UIdle /\ QIdle /\ IIdle /\ LIdle /\ MIdle
    /\ hpc = "call"
    /\ md_lines = <<>>
    /\ index = 0
    /\ text_lines = <<>>
    /\ renderables = <<>>

\* the texts the renderer is given, as their lines
RenderedTexts ==
    UNION {[1..n -> RenderedLines] : n \in 0..MaxRendered}
        \cup {<<<<"#","#"," ","H">>>>}

\* the call: renderables = [], text_lines = [],
\* lines = markdown_content.splitlines(), index = 0
SplitContent ==
    /\ hpc = "call"
    /\ md_lines' \in RenderedTexts
    /\ hpc' = "render"
    /\ UNCHANGED <<index, text_lines, renderables, xvars, cvars, svars,
                   headvars, uvars, qvars, ivars, lvars, mvars>>

\* the body of the loop at a header line that a separator follows
TableStep ==
    /\ hpc = "render"
    /\ index < Len(md_lines)
    /\ AtTable(md_lines, index)
    /\ renderables' =
          Append(Flushed(renderables, text_lines),
                 Table(SplitTableRow(md_lines[index + 1]),
                       [k \in 1..(RowsEnd(md_lines, index + 2) - index - 2) |->
                           SplitTableRow(md_lines[index + 2 + k])]))
    /\ text_lines' = <<>>
    /\ index' = RowsEnd(md_lines, index + 2)
    /\ UNCHANGED <<hpc, md_lines, xvars, cvars, svars, headvars, uvars, qvars,
                   ivars, lvars, mvars>>

\* the body of the loop at a line that starts with "# ", "## " or "### "
HeadingStep ==
    /\ hpc = "render"
    /\ index < Len(md_lines)
    /\ ~AtTable(md_lines, index)
    /\ HeadingPrefix(md_lines[index + 1]) # <<>>
    /\ renderables' =
          Append(Flushed(renderables, text_lines),
                 Text(SubSeq(md_lines[index + 1],
                             Len(HeadingPrefix(md_lines[index + 1])) + 1,
                             Len(md_lines[index + 1])),
                      HeadingStyle(HeadingPrefix(md_lines[index + 1]))))
    /\ text_lines' = <<>>
    /\ index' = index + 1
    /\ UNCHANGED <<hpc, md_lines, xvars, cvars, svars, headvars, uvars, qvars,
                   ivars, lvars, mvars>>

\* the body of the loop at any other line
TextStep ==
    /\ hpc = "render"
    /\ index < Len(md_lines)
    /\ ~AtTable(md_lines, index)
    /\ HeadingPrefix(md_lines[index + 1]) = <<>>
    /\ text_lines' = Append(text_lines, md_lines[index + 1])
    /\ index' = index + 1
    /\ UNCHANGED <<hpc, md_lines, renderables, xvars, cvars, svars, headvars,
                   uvars, qvars, ivars, lvars, mvars>>

\* the end of the loop, the last flush and the return
ReturnRenderables ==
    /\ hpc = "render"
    /\ index >= Len(md_lines)
    /\ renderables' = Flushed(renderables, text_lines)
    /\ hpc' = "rendered"
    /\ UNCHANGED <<md_lines, index, text_lines, xvars, cvars, svars, headvars,
                   uvars, qvars, ivars, lvars, mvars>>

RNext ==
    \/ SplitContent
    \/ TableStep
    \/ HeadingStep
    \/ TextStep
    \/ ReturnRenderables

SpecRender == RInit /\ [][RNext]_vars

\* a step of the call can be taken as long as it has not returned
Running ==
    \/ hpc = "call"
    \/ /\ hpc = "render"
       /\ \/ index >= Len(md_lines)
          \/ AtTable(md_lines, index)
          \/ HeadingPrefix(md_lines[index + 1]) # <<>>
          \/ HeadingPrefix(md_lines[index + 1]) = <<>>

\* the call runs on: weak fairness of its steps, WF_vars(RNext), with the
\* condition under which a step can be taken written out
SpecRenderRuns ==
    RInit /\ [][RNext]_vars /\ ([]<>(~Running) \/ []<><<RNext>>_vars)

---------------------------------------------------------------------------
(* Properties of the renderer *)

\* the number of lines a renderable stands for
LinesOf(r) ==
    CASE r.kind = "Markdown" -> Len(SplitOn(r.text, "\n"))
      [] r.kind = "Text" -> 1
      [] OTHER -> 2 + Len(r.rows)

RECURSIVE LinesUpTo(_, _)
\* the number of lines the first n renderables stand for
LinesUpTo(rs, n) ==
    IF n = 0 THEN 0 ELSE LinesUpTo(rs, n - 1) + LinesOf(rs[n])

\* a separator: columns divided by "|", each of three dashes or more with an
\* optional colon before and after, for any number of columns
SeparatorPattern(line) ==
    /\ Contains(line, <<"|">>)
    /\ \A k \in 1..Len(PipeCells(line)) : IsDashCell(Strip(PipeCells(line)[k]))

\* the index, from 0, of the first line from start on that is blank or has
\* no "|", the number of lines when there is none
DataEnd(all_lines, start) ==
    Min({i \in start..(Len(all_lines) - 1) :
            \/ Strip(all_lines[i + 1]) = <<>>
            \/ \A c \in 1..Len(all_lines[i + 1]) : all_lines[i + 1][c] # "|"}
          \cup {Len(all_lines)})

\* the line at index p, from 0, is a separator or a data row of a table
\* that began before it
InsideTable(rs, p) ==
    \E k \in 1..Len(rs) :
        /\ rs[k].kind = "Table"
        /\ LinesUpTo(rs, k - 1) < p
        /\ p < LinesUpTo(rs, k)

\* renderable k is the table of the header at index p, with the rows that
\* follow its separator
TableAt(rs, k, all_lines, p) ==
    /\ rs[k].kind = "Table"
    /\ LinesUpTo(rs, k - 1) = p
    /\ rs[k].columns = SplitTableRow(all_lines[p + 1])
    /\ Len(rs[k].rows) = DataEnd(all_lines, p + 2) - (p + 2)
    /\ \A n \in 1..Len(rs[k].rows) :
           rs[k].rows[n] = FitRow(SplitTableRow(all_lines[p + 2 + n]),
                                  Len(rs[k].columns))

\* C24: a line with "|" that is followed at once by a separator line, of
\* any number of columns, and that is not itself inside a table begun
\* before it, is the header of a table, and the rows of that table are the
\* lines after the separator up to, and without, the first blank line or
\* line without "|"; there is no other table.
C24_TableDetected ==
    hpc = "rendered" =>
        /\ \A p \in 0..(Len(md_lines) - 2) :
               (/\ Contains(md_lines[p + 1], <<"|">>)
                /\ SeparatorPattern(md_lines[p + 2])
                /\ ~InsideTable(renderables, p))
                  => \E k \in 1..Len(renderables) :
                         TableAt(renderables, k, md_lines, p)
        /\ \A k \in 1..Len(renderables) :
               renderables[k].kind = "Table"
                  => /\ LinesUpTo(renderables, k - 1) + 2 <= Len(md_lines)
                     /\ TableAt(renderables, k, md_lines,
                                LinesUpTo(renderables, k - 1))
                     /\ SeparatorPattern(
                            md_lines[LinesUpTo(renderables, k - 1) + 2])

\* the same for separators of two columns or more
C24_TwoColumnsDetected ==
    hpc = "rendered" =>
        /\ \A p \in 0..(Len(md_lines) - 2) :
               (/\ Contains(md_lines[p + 1], <<"|">>)
                /\ SeparatorPattern(md_lines[p + 2])
                /\ Len(PipeCells(md_lines[p + 2])) >= 2
                /\ ~InsideTable(renderables, p))
                  => \E k \in 1..Len(renderables) :
                         TableAt(renderables, k, md_lines, p)
        /\ \A k \in 1..Len(renderables) :
               renderables[k].kind = "Table"
                  => /\ LinesUpTo(renderables, k - 1) + 2 <= Len(md_lines)
                     /\ TableAt(renderables, k, md_lines,
                                LinesUpTo(renderables, k - 1))
                     /\ SeparatorPattern(
                            md_lines[LinesUpTo(renderables, k - 1) + 2])

\* the lines of text_lines that are in no Markdown block yet
Pending == IF hpc = "rendered" THEN <<>> ELSE text_lines

\* the lines up to index are those the renderables and text_lines stand
\* for, each once and in order: a Markdown block holds its lines as they
\* are, a Text holds a heading line without its prefix, and a line is in a
\* Markdown block or in text_lines unless it is a heading or in a table
LinesAccounted ==
    /\ LinesUpTo(renderables, Len(renderables)) + Len(Pending) = index
    /\ index <= Len(md_lines)
    /\ Pending = SubSeq(md_lines, index - Len(Pending) + 1, index)
    /\ \A k \in 1..Len(renderables) :
          /\ renderables[k].kind = "Markdown"
                => SplitOn(renderables[k].text, "\n")
                     = SubSeq(md_lines, LinesUpTo(renderables, k - 1) + 1,
                              LinesUpTo(renderables, k))
          /\ renderables[k].kind = "Text"
                => /\ HeadingPrefix(md_lines[LinesUpTo(renderables, k)]) # <<>>
                   /\ md_lines[LinesUpTo(renderables, k)]
                        = HeadingPrefix(md_lines[LinesUpTo(renderables, k)])
                            \o renderables[k].text
          /\ renderables[k].kind = "Table"
                => /\ Contains(md_lines[LinesUpTo(renderables, k - 1) + 1],
                               <<"|">>)
                   /\ IsTableSeparator(
                          md_lines[LinesUpTo(renderables, k - 1) + 2])
                   /\ \A n \in 1..Len(renderables[k].rows) :
                          IsDataRow(md_lines[LinesUpTo(renderables, k - 1)
                                               + 2 + n])
    /\ \A p \in 1..index :
          (/\ HeadingPrefix(md_lines[p]) = <<>>
           /\ ~InsideTable(renderables, p - 1)
           /\ ~\E k \in 1..Len(renderables) :
                  /\ renderables[k].kind = "Table"
                  /\ LinesUpTo(renderables, k - 1) = p - 1)
             => \/ p > index - Len(Pending)
                \/ \E k \in 1..Len(renderables) :
                      /\ renderables[k].kind = "Markdown"
                      /\ LinesUpTo(renderables, k - 1) < p
                      /\ p <= LinesUpTo(renderables, k)

\* C25: _build_rich_renderables returns for every input; index only grows;
\* at every step the lines read so far are accounted for, each once and in
\* order, and at the return all lines are read and none is left in
\* text_lines.
C25_EveryLineOnce ==
    /\ [](hpc # "rendered" <=> Running)
    /\ [](hpc \in {"render", "rendered"} => LinesAccounted)
    /\ [](hpc = "rendered" =>
             LinesUpTo(renderables, Len(renderables)) = Len(md_lines))
    /\ [][hpc = "render" => (index' > index \/ hpc' = "rendered")]_vars
    /\ (hpc = "render" ~> hpc = "rendered")

C25_Witness ==
    /\ hpc = "rendered"
    /\ md_lines = <<<<"x">>, <<"a","|","b">>, <<"-","-","-","|","-","-","-">>,
                    <<"1","|","2","|","3">>>>
    /\ Len(renderables) = 2
    /\ renderables[1] = Markdown(<<"x">>)
    /\ renderables[2] = Table(<<<<"a">>, <<"b">>>>,
                              <<<<<<"1">>, <<"2">>>>>>)

---------------------------------------------------------------------------
(* Specification of the constructor: ConfluenceClient is given a base URL  *)
(* and credentials.                                                        *)

BaseUrls ==
    { <<"h","t","t","p","s",":","/","/","h">>, <<"h","t","t","p","s",":","/","/","h","/">>, <<"h","t","t","p","s",":","/","/","h","/","/">> }

\* each credential is left out, empty or a text
Usernames == {NoneArg, Arg(<<>>), Arg(<<"u">>), Arg(<<"a", "b">>)}

Passwords == {NoneArg, Arg(<<>>), Arg(<<"p">>)}

Tokens == {NoneArg, Arg(<<>>), Arg(<<"t">>)}

IInit ==
    /\ XIdle
    /\ CIdle
    /\ SIdle
    /\ HeadIdle /\ UIdle /\ QIdle /\ RIdle /\ LIdle /\ MIdle
    /\ hpc = "new"
    /\ credentials \in [base_url : BaseUrls, username : Usernames,
                         password : Passwords, token : Tokens]
    /\ client = NoClient

\* ConfluenceClient(base_url, username, password, token)
Construct ==
    /\ hpc = "new"
    /\ client' = NewClient(credentials)
    /\ hpc' = IF client'.made THEN "made" ELSE "raised"
    /\ UNCHANGED <<credentials, xvars, cvars, svars, headvars, uvars, qvars,
                   rvars, lvars, mvars>>

INext == Construct

SpecInit == IInit /\ [][INext]_vars

---------------------------------------------------------------------------
(* Properties of the constructor *)

\* a credential is given: it is neither left out nor empty
Given(arg) == arg # NoneArg /\ arg # Arg(<<>>)

\* C26: the constructor returns a client exactly when a token is given or
\* a username and a password are both given; the session then has the
\* header Authorization: Basic of username:token when token and username
\* are given, Bearer of the token when the token alone is given, Basic of
\* username:password otherwise; in every other case it raises ValueError.
C26_ClientConstruction ==
    hpc # "new" =>
        /\ client.made <=> (Given(credentials.token)
                               \/ (Given(credentials.username)
                                      /\ Given(credentials.password)))
        /\ client.made <=> hpc = "made"
        /\ client.made =>
              /\ client.error = ""
              /\ client.authorization # <<>>
              /\ (Given(credentials.token) /\ Given(credentials.username))
                    => client.authorization
                         = <<"B","a","s","i","c"," ">>
                             \o (IF credentials.username.value = <<"u">>
                                 THEN <<"d","T","p","0">>
                                 ELSE <<"Y","W","I","6","d","A","=","=">>)
              /\ (Given(credentials.token) /\ ~Given(credentials.username))
                    => client.authorization = <<"B","e","a","r","e","r"," ","t">>
              /\ ~Given(credentials.token)
                    => client.authorization
                         = <<"B","a","s","i","c"," ">>
                             \o (IF credentials.username.value = <<"u">>
                                 THEN <<"d","T","p","w">>
                                 ELSE <<"Y","W","I","6","c","A","=","=">>)
        /\ ~client.made =>
              /\ client.error = "ValueError"
              /\ client.authorization = <<>>

C26_Witness ==
    /\ hpc = "made"
    /\ credentials.token = Arg(<<"t">>)
    /\ credentials.username = Arg(<<"u">>)
    /\ credentials.password = Arg(<<"p">>)
    /\ client.authorization = <<"B","a","s","i","c"," ","d","T","p","0">>

C26_WitnessRaised ==
    /\ hpc = "raised"
    /\ credentials.token = Arg(<<>>)
    /\ credentials.username = Arg(<<"u">>)
    /\ credentials.password = NoneArg
    /\ client.error = "ValueError"

---------------------------------------------------------------------------
(* Specification of a listing: list_recent_pages or                        *)
(* list_recently_viewed_pages, one action for each way through the body of *)
(* its loop.                                                               *)

\* the status codes a search may be answered with
SearchStatuses == {200, 204, 304, 400, 401, 500}

\* the responses to a search: a status and what its text holds
SearchResponses ==
    {r \in [status : SearchStatuses, text : ResponseTexts] :
        r.status # 400 => r.text = "other"}

LsInit ==
    /\ XIdle
    /\ CIdle
    /\ SIdle
    /\ HeadIdle /\ UIdle /\ QIdle /\ RIdle /\ IIdle /\ MIdle
    /\ hpc = "list"
    /\ listing \in {"recent", "viewed"}
    /\ requests = <<>>
    /\ data = 0
    /\ raised = ""

\* the search for the next variant is sent and answered
Answered(response) ==
    /\ hpc = "list"
    /\ Len(requests) < Len(VariantsOf(listing))
    /\ requests' = Append(requests,
                          [cql |-> VariantsOf(listing)[Len(requests) + 1],
                           status |-> response.status,
                           text |-> response.text])

\* status 200: data = response.json(), break, and the pages are returned
AnswerOk ==
    /\ \E response \in SearchResponses :
          /\ response.status = 200
          /\ Answered(response)
    /\ data' = Len(requests')
    /\ hpc' = "listed"
    /\ UNCHANGED <<listing, raised, xvars, cvars, svars, headvars, uvars,
                   qvars, rvars, ivars, mvars>>

\* status 400 with one of the two texts: continue
AnswerRejected ==
    /\ \E response \in SearchResponses :
          /\ IsRejection(response)
          /\ Answered(response)
    /\ UNCHANGED <<hpc, listing, data, raised, xvars, cvars, svars, headvars,
                   uvars, qvars, rvars, ivars, mvars>>

\* any other status of 400 and above: the two prints, and raise_for_status
\* raises
AnswerError ==
    /\ \E response \in SearchResponses :
          /\ response.status # 200
          /\ ~IsRejection(response)
          /\ RaisesForStatus(response.status)
          /\ Answered(response)
    /\ raised' = "HTTPError"
    /\ hpc' = "raised"
    /\ UNCHANGED <<listing, data, xvars, cvars, svars, headvars, uvars, qvars,
                   rvars, ivars, mvars>>

\* any other status below 400: the two prints, raise_for_status returns and
\* the body of the loop ends
AnswerUnraised ==
    /\ \E response \in SearchResponses :
          /\ response.status # 200
          /\ ~IsRejection(response)
          /\ ~RaisesForStatus(response.status)
          /\ Answered(response)
    /\ UNCHANGED <<hpc, listing, data, raised, xvars, cvars, svars, headvars,
                   uvars, qvars, rvars, ivars, mvars>>

\* the loop is through the variants and data is None
Exhausted ==
    /\ hpc = "list"
    /\ Len(requests) = Len(VariantsOf(listing))
    /\ data = 0
    /\ raised' = "RuntimeError: rejected all CQL variants"
    /\ hpc' = "raised"
    /\ UNCHANGED <<listing, requests, data, xvars, cvars, svars, headvars,
                   uvars, qvars, rvars, ivars, mvars>>

LsNext ==
    \/ AnswerOk
    \/ AnswerRejected
    \/ AnswerError
    \/ AnswerUnraised
    \/ Exhausted

SpecList == LsInit /\ [][LsNext]_vars

---------------------------------------------------------------------------
(* Properties of a listing *)

\* the answer was HTTP 400 with No field exists or Could not parse cql
RejectedAnswer(request) ==
    /\ request.status = 400
    /\ request.text # "other"

\* C30: the variants are requested in the order of their list, one after
\* the other; a variant is requested only if every variant before it was
\* rejected with HTTP 400 and one of the two texts; data is the answer of
\* the first variant answered with 200, which is the last one requested;
\* after any other answer nothing more is requested and the listing ends
\* with an error; RuntimeError is raised only when every variant was
\* rejected.
C30_VariantsInOrder ==
    /\ \A k \in 1..Len(requests) :
          /\ k <= Len(VariantsOf(listing))
          /\ requests[k].cql = VariantsOf(listing)[k]
          /\ \A j \in 1..(k - 1) : RejectedAnswer(requests[j])
          /\ requests[k].status = 200 => (k = Len(requests) /\ data = k)
          /\ (requests[k].status # 200 /\ ~RejectedAnswer(requests[k]))
                => /\ k = Len(requests)
                   /\ hpc = "raised"
                   /\ raised = "HTTPError"
    /\ data # 0 => (hpc = "listed" /\ requests[data].status = 200)
    /\ hpc = "listed" => (data = Len(requests) /\ raised = "")
    /\ raised = "RuntimeError: rejected all CQL variants"
          => /\ Len(requests) = Len(VariantsOf(listing))
             /\ \A k \in 1..Len(requests) : RejectedAnswer(requests[k])

\* the same for answers of 200 and of 400 and above only
C30_WithoutUnraised ==
    (\A k \in 1..Len(requests) : requests[k].status \notin {204, 304})
        => C30_VariantsInOrder

---------------------------------------------------------------------------
(* Specification of the command line: main is run with its arguments, from *)
(* the check of the base URL to its end.                                   *)

\* the actions that take a page URL, and test-auth
CliActions == {"test-auth", "download", "read", "add", "edit"}

\* args after the profile and the prompts: for each value, whether it is
\* given (neither None nor empty)
ArgSets ==
    [action : CliActions, url : BOOLEAN, content : BOOLEAN,
     base_url : BOOLEAN, token : BOOLEAN, username : BOOLEAN,
     password : BOOLEAN]

\* the lines main prints before sys.exit(1) for a missing argument, <<>>
\* when none is missing
MissingArgument(given) ==
    IF ~given.base_url
    THEN <<"Error: --base-url is required (or use --config to load from saved profile)">>
    ELSE IF ~given.token /\ ~(given.username /\ given.password)
    THEN <<"Error: Either --token or --username/--password must be provided",
           "       (or use --config to load from saved profile)">>
    ELSE IF given.action = "download" /\ ~given.url
    THEN <<"Error: URL is required for download action">>
    ELSE IF given.action = "read" /\ ~given.url
    THEN <<"Error: URL is required for read action">>
    ELSE IF given.action = "add" /\ ~given.url
    THEN <<"Error: URL is required for add action">>
    ELSE IF given.action = "add" /\ ~given.content
    THEN <<"Error: --content is required for add action">>
    ELSE IF given.action = "edit" /\ ~given.url
    THEN <<"Error: URL is required for edit action">>
    ELSE <<>>

\* the exceptions a call of the client may raise
Exceptions ==
    {"ValueError", "HTTPError", "ConnectionError", "RuntimeError",
     "FileNotFoundError"}

\* str(e) of the exception
ExceptionText(exception) ==
    CASE exception = "ValueError" -> "Could not extract page ID from URL: u"
      [] exception = "HTTPError" -> "404 Client Error"
      [] exception = "ConnectionError" -> "Connection refused"
      [] exception = "RuntimeError" ->
            "Confluence rejected the update due to a version conflict. Refresh the page and try again."
      [] exception = "FileNotFoundError" -> "No such file or directory"

\* how the client's method of an action may end: it returns a value, it
\* returns None (edit_page_with_editor when the editor ended with a
\* non-zero code or the file was not modified), or it raises
CallEndings(action) ==
    CASE action = "edit" -> {"returned", "None"} \cup Exceptions
      [] action = "add" ->
            {"returned"} \cup (Exceptions \ {"FileNotFoundError"})
      [] OTHER -> {"returned", "ValueError", "HTTPError", "ConnectionError"}

\* how test_authentication may end: the user, the dict with "error" for a
\* status other than 200, an exception of the request
AuthEndings == {"returned", "auth failed", "ConnectionError"}

\* the exit status of main after test_authentication: sys.exit(1) in the
\* except clause, else main returns
AuthExit(ending) == IF ending \in Exceptions THEN 1 ELSE 0

\* what main prints after the call has returned a value
ReturnedLines(action) ==
    CASE action = "download" -> <<"markdown_content", "Page URL: u">>
      [] action = "read" -> <<"Title: T", "Markdown Content:", "Page URL: u">>
      [] action = "add" ->
            <<"Content added successfully. New version: 2", "Page URL: u">>
      [] action = "edit" -> <<"Page URL: u">>

\* except Exception as e: print(f"Error: {e}")
ErrorLine(exception) == "Error: " \o ExceptionText(exception)

MInit ==
    /\ XIdle
    /\ CIdle
    /\ SIdle
    /\ HeadIdle /\ UIdle /\ QIdle /\ RIdle /\ IIdle /\ LIdle
    /\ hpc = "main"
    /\ args \in ArgSets
    /\ call_outcome = "none"
    /\ printed = <<>>
    /\ exit_status = -1

\* the base URL, the credentials or an argument of the action is missing
ExitMissing ==
    /\ hpc = "main"
    /\ MissingArgument(args) # <<>>
    /\ printed' = MissingArgument(args)
    /\ exit_status' = 1
    /\ hpc' = "exited"
    /\ UNCHANGED <<args, call_outcome, xvars, cvars, svars, headvars, uvars,
                   qvars, rvars, ivars, lvars>>

\* the test-auth action
TestAuth ==
    /\ hpc = "main"
    /\ MissingArgument(args) = <<>>
    /\ args.action = "test-auth"
    /\ \E ending \in AuthEndings :
          /\ call_outcome' = ending
          /\ printed' = <<"Testing authentication...">> \o
                (CASE ending = "returned" ->
                         <<"Authentication successful!", "   User: d",
                           "   Username: u", "   User Key: k">>
                   [] ending = "auth failed" ->
                         <<"Authentication failed: HTTP 401">>
                   [] OTHER -> <<ErrorLine(ending)>>)
          /\ exit_status' = AuthExit(ending)
    /\ hpc' = "exited"
    /\ UNCHANGED <<args, xvars, cvars, svars, headvars, uvars, qvars, rvars,
                   ivars, lvars>>

\* the download, read, add and edit actions
RunAction ==
    /\ hpc = "main"
    /\ MissingArgument(args) = <<>>
    /\ args.action # "test-auth"
    /\ \E ending \in CallEndings(args.action) :
          /\ call_outcome' = ending
          /\ printed' = IF ending \in Exceptions THEN <<ErrorLine(ending)>>
                         ELSE IF ending = "None"
                         THEN <<"Edit cancelled or no changes made.">>
                         ELSE ReturnedLines(args.action)
          /\ exit_status' = IF ending \in Exceptions THEN 1 ELSE 0
    /\ hpc' = "exited"
    /\ UNCHANGED <<args, xvars, cvars, svars, headvars, uvars, qvars, rvars,
                   ivars, lvars>>

MNext ==
    \/ ExitMissing
    \/ TestAuth
    \/ RunAction

SpecCli == MInit /\ [][MNext]_vars

\* the run has ended in a fatal error other than a failed authentication
\* check: an argument was missing, or the client raised
FatalError ==
    \/ MissingArgument(args) # <<>>
    \/ call_outcome \in Exceptions

\* a message was printed and the exit status is not zero
ReportedAsError == printed # <<>> /\ exit_status > 0

\* the edit was cancelled: an informational line and exit status zero
ReportedAsCancelled ==
    /\ printed = <<"Edit cancelled or no changes made.">>
    /\ exit_status = 0

\* C23 (as claimed): a run of the command line that has ended in a fatal
\* error (a failed authentication check, an exception of the client such
\* as a transport failure, a version conflict or a URL without a page id,
\* a missing argument) has printed a message and has a non-zero exit
\* status, and a run whose edit was cancelled has printed an informational
\* line and has exit status zero.
C23_FatalErrorsExitNonZero ==
    hpc = "exited" =>
        /\ (FatalError \/ call_outcome = "auth failed") => ReportedAsError
        /\ call_outcome = "None" => ReportedAsCancelled

\* C23, without the authentication check: the same for every fatal error
\* other than the failed check of test-auth.
C23_WithoutAuthCheck ==
    hpc = "exited" =>
        /\ FatalError => ReportedAsError
        /\ call_outcome = "None" => ReportedAsCancelled
        /\ exit_status > 0 => (FatalError /\ printed # <<>>)

=============================================================================
